---- MODULE Spec2Model ----
(***************************************************************************)
(* A model of the query-answering pipeline of VerityRAG                    *)
(* (src/api/app/services/ask_service.py and the services it calls).        *)
(*                                                                         *)
(* Conventions                                                             *)
(*  - A string is a record [id, len, num]: id names the text, len is the   *)
(*    length of its whitespace-normalised form, num is its value when the  *)
(*    text is a decimal numeral and NotNumeric otherwise.                  *)
(*  - A similarity score is an integer in 0..ScoreOne (ScoreOne is 1.0).   *)
(*  - A confidence is a fraction [num, den] with den > 0.                  *)
(***************************************************************************)
EXTENDS Integers, Sequences, FiniteSets, TLC

VARIABLES
    ctx_redis,      \* the value stored under the session's context key
    ctx_state,      \* the Context State held by the request in flight
    ctx_pc,         \* absent / loaded / updated / persisted
    ctx_n,          \* turns appended so far
    conf_chunks,    \* a result set handed to _confidence
    conf_before,    \* the result set before a chunk was appended to it
    conf_pc,        \* start / appended
    rr_chunks,      \* the chunk list handed to _hybrid_rerank
    rr_terms,       \* its query terms
    rr_limit,       \* its limit
    rr_out,         \* its result
    rr_pc,          \* start / done
    fact_rows,      \* the facts table
    fact_req,       \* the request handed to _fact_first_answer
    fact_out,       \* its result
    fact_pc,        \* start / done
    ask_pc,         \* idle / begun / retrieved / missed / done / raised
    ask_req,        \* the request in flight
    ask_chunks,     \* its evidence
    ask_resp,       \* its response
    ask_calls,      \* the calls answer_query has made for it, in order
    ask_at,         \* the time of its last step
    ask_n,          \* requests begun so far
    ask_hist,       \* the requests that returned before it
    answer_redis,   \* answer:<key> entries of the fast tier
    answer_db,      \* rows of the answer_cache table
    embed_redis,    \* query_embed:<hash> entries
    now,            \* the clock, in seconds
    cache_op,       \* the last operation on the answer cache, with its result
    cache_log,      \* per cache key, the last set_answer that returned
    emb_cache,      \* _embed_cache: the memo map of embed_text
    emb_order,      \* _embed_order: the eviction queue of the memo
    emb_th,         \* per thread, the embed_text call it is in
    rs_store,       \* the context keys present in redis
    rs_op,          \* the last operation on a session's context, with its result
    ln_op,          \* the last call of _retrieve_with_lane_fallback, with its result
    rc_th,          \* per request, the set_answer call it is in
    ss_th,          \* per request, the step on a session's context it is at
    ig_op,          \* the documents table and the last upsert_document_with_chunks
    wk_op           \* the sync queue, the jobs table and the worker loop's position

ctxVars == <<ctx_redis, ctx_state, ctx_pc, ctx_n>>

confVars == <<conf_chunks, conf_before, conf_pc>>

rrVars == <<rr_chunks, rr_terms, rr_limit, rr_out, rr_pc>>

factVars == <<fact_rows, fact_req, fact_out, fact_pc>>

askVars == <<ask_pc, ask_req, ask_chunks, ask_resp, ask_calls, ask_at, ask_n, ask_hist,
            answer_redis, answer_db, embed_redis, now>>

cacheVars == <<cache_op, cache_log>>

embVars == <<emb_cache, emb_order, emb_th>>

resetVars == <<rs_store, rs_op>>

tailVars == <<ln_op, rc_th, ss_th, ig_op, wk_op>>

vars == <<ctxVars, confVars, rrVars, factVars, askVars, cacheVars, embVars, resetVars, tailVars>>

\* what a step on one group of variables leaves alone
exceptCtx == <<confVars, rrVars, factVars, askVars, cacheVars, embVars, resetVars, tailVars>>

exceptConf == <<ctxVars, rrVars, factVars, askVars, cacheVars, embVars, resetVars, tailVars>>

exceptRr == <<ctxVars, confVars, factVars, askVars, cacheVars, embVars, resetVars, tailVars>>

exceptFact == <<ctxVars, confVars, rrVars, askVars, cacheVars, embVars, resetVars, tailVars>>

exceptAsk == <<confVars, rrVars, factVars, cacheVars, embVars, resetVars, tailVars>>

----------------------------------------------------------------------------
(* Strings *)

NotNumeric == -1

Str(id, len) == [id |-> id, len |-> len, num |-> NotNumeric]

EmptyStr == Str("", 0)

Min(a, b) == IF a <= b THEN a ELSE b

Max(a, b) == IF a >= b THEN a ELSE b

----------------------------------------------------------------------------
(* Conversation context: ask_service.py 252-335 *)

CTX_MAX_TURNS == 8

CTX_RECENT_TURNS == 4

CTX_SUMMARY_MAX_CHARS == 1200

\* clean if len(clean) <= limit else clean[:limit - 1] + '...' (one character)
_compact_text(value, limit) ==
    IF value.len <= limit THEN value
    ELSE [id |-> value.id, len |-> limit, num |-> NotNumeric]

EmptyContext == [summary |-> EmptyStr, turns |-> <<>>]

Absent == [fmt |-> "absent", summary |-> EmptyStr, turns |-> <<>>]

LastN(s, n) == IF Len(s) <= n THEN s ELSE SubSeq(s, Len(s) - n + 1, Len(s))

DropLastN(s, n) == IF Len(s) <= n THEN <<>> ELSE SubSeq(s, 1, Len(s) - n)

\* redis.get + json.loads; the legacy format is a bare list of turns
_load_context(raw, max_turns) ==
    CASE raw.fmt = "absent" -> EmptyContext
      [] raw.fmt = "list"   -> [summary |-> EmptyStr, turns |-> LastN(raw.turns, max_turns)]
      [] raw.fmt = "dict"   ->
            [summary |-> _compact_text(raw.summary, CTX_SUMMARY_MAX_CHARS),
             turns   |-> LastN(raw.turns, max_turns)]
      [] OTHER              -> EmptyContext

\* Length of one line f'Q: {q} A: {a}'.strip(), whitespace-normalised as the
\* final _compact_text of the merged text leaves it; 0 when the turn is skipped.
SummaryLineLen(t) ==
    LET q == _compact_text(t.q, 120).len
        a == _compact_text(t.a, 180).len
    IN  IF q = 0 /\ a = 0 THEN 0
        ELSE IF q = 0 \/ a = 0 THEN q + a + 6
        ELSE q + a + 7

RECURSIVE JoinedLen(_)
\* len(' | '.join(lines)) of a sequence of line lengths
JoinedLen(lens) ==
    IF lens = <<>> THEN 0
    ELSE IF Len(lens) = 1 THEN lens[1]
    ELSE lens[1] + 3 + JoinedLen(Tail(lens))

RECURSIVE TurnLines(_)
TurnLines(turns) ==
    IF turns = <<>> THEN <<>>
    ELSE LET n == SummaryLineLen(turns[1])
         IN  (IF n = 0 THEN <<>> ELSE <<n>>) \o TurnLines(Tail(turns))

\* A mutant of _merge_context_summary: the merged text is returned uncut.
Mut_merge_context_summary_uncut(existing_summary, turns) ==
    LET head  == IF existing_summary.len > 0
                 THEN <<_compact_text(existing_summary, 500).len>> ELSE <<>>
        lines == head \o TurnLines(turns)
    IN  IF lines = <<>> THEN EmptyStr ELSE Str("summary", JoinedLen(lines))

_merge_context_summary(existing_summary, turns) ==
    LET head  == IF existing_summary.len > 0
                 THEN <<_compact_text(existing_summary, 500).len>> ELSE <<>>
        lines == head \o TurnLines(turns)
        merged == IF lines = <<>> THEN EmptyStr ELSE Str("summary", JoinedLen(lines))
    IN  _compact_text(merged, CTX_SUMMARY_MAX_CHARS)

\* A mutant of _compact_context_state: nothing is ever folded.
Mut_compact_context_state_nofold(state) ==
    [summary |-> _compact_text(state.summary, CTX_SUMMARY_MAX_CHARS), turns |-> state.turns]

_compact_context_state(state) ==
    IF Len(state.turns) <= CTX_MAX_TURNS
    THEN [summary |-> _compact_text(state.summary, CTX_SUMMARY_MAX_CHARS),
          turns   |-> LastN(state.turns, CTX_MAX_TURNS)]
    ELSE [summary |-> _merge_context_summary(state.summary,
                                             DropLastN(state.turns, CTX_RECENT_TURNS)),
          turns   |-> LastN(state.turns, CTX_RECENT_TURNS)]

_append_context_turn(state, q, a) ==
    _compact_context_state(
        [summary |-> state.summary,
         turns   |-> Append(state.turns,
                            [q |-> _compact_text(q, 240), a |-> _compact_text(a, 320)])])

\* redis.setex(key, CTX_TTL_SECONDS, json.dumps(_compact_context_state(state)))
_save_context(state) ==
    LET compacted == _compact_context_state(state)
    IN  [fmt |-> "dict", summary |-> compacted.summary, turns |-> compacted.turns]

----------------------------------------------------------------------------
(* Scores, tokens and terms: ask_service.py 498-524, retrieval_service.py   *)
(* 12-26                                                                   *)

\* 1.0 as a score; scores are kept in thousandths.
ScoreOne == 1000

Frac(n, d) == [num |-> n, den |-> d]

FracLE(a, b) == a.num * b.den <= b.num * a.den

FracLT(a, b) == a.num * b.den < b.num * a.den

\* a fraction against a threshold given in thousandths
FracGE(a, thousandths) == a.num * ScoreOne >= thousandths * a.den

\* words of five characters or more, with their first five characters
\* (_overlap_count compares term[:5] and tok[:5] of such words only)
Prefix5 ==
    [w \in {"policy", "policies", "incident", "postmortem", "process", "times"} |->
        CASE w = "policy"     -> "polic"
          [] w = "policies"   -> "polic"
          [] w = "incident"   -> "incid"
          [] w = "postmortem" -> "postm"
          [] w = "process"    -> "proce"
          [] w = "times"      -> "times"]

IsLong(w) == w \in DOMAIN Prefix5

\* A text is [id, tokens, phrases]: its token set, and the multi-word terms
\* that occur in it as substrings.
_token_set(text) == text.tokens

TermHits(tokens, term) ==
    \/ term \in tokens
    \/ /\ IsLong(term)
       /\ \E tok \in tokens : IsLong(tok) /\ Prefix5[tok] = Prefix5[term]

_overlap_count(tokens, terms) ==
    IF tokens = {} \/ terms = {} THEN 0
    ELSE Cardinality({t \in terms : TermHits(tokens, t)})

RECURSIVE SumScores(_)
SumScores(chunks) ==
    IF chunks = <<>> THEN 0 ELSE chunks[1].score + SumScores(Tail(chunks))

DocCount(chunks, d) == Cardinality({i \in 1..Len(chunks) : chunks[i].document_id = d})

DocsOf(chunks) == {chunks[i].document_id : i \in 1..Len(chunks)}

MaxDocCount(chunks) ==
    LET counts == {DocCount(chunks, d) : d \in DocsOf(chunks)}
    IN  CHOOSE m \in counts : \A k \in counts : k <= m

\* A mutant of _confidence: consensus counts the distinct documents.
Mut_confidence_distinct(chunks) ==
    IF chunks = <<>> THEN Frac(0, 1)
    ELSE LET n   == Len(chunks)
             num == 6 * chunks[1].score * n + 3 * SumScores(chunks)
                    + ScoreOne * Cardinality(DocsOf(chunks))
             den == 10 * n * ScoreOne
         IN  Frac(Max(0, Min(den, num)), den)

\* 0.6 * top1 + 0.3 * mean(scores) + 0.1 * max_document_frequency / len,
\* clamped to [0, 1]; as a fraction over 10 * len * ScoreOne.
_confidence(chunks) ==
    IF chunks = <<>> THEN Frac(0, 1)
    ELSE LET n   == Len(chunks)
             num == 6 * chunks[1].score * n + 3 * SumScores(chunks)
                    + ScoreOne * MaxDocCount(chunks)
             den == 10 * n * ScoreOne
         IN  Frac(Max(0, Min(den, num)), den)

_max_overlap(chunks, terms) ==
    IF chunks = <<>> \/ terms = {} THEN 0
    ELSE LET ov == {_overlap_count(_token_set(chunks[i].text), terms) : i \in 1..Len(chunks)}
         IN  CHOOSE m \in ov : \A k \in ov : k <= m

Take(s, n) == IF Len(s) <= n THEN s ELSE SubSeq(s, 1, n)

\* 100 * max(1, len(terms)) times the hybrid score of a chunk
HybridKey(c, terms) ==
    LET overlap == _overlap_count(_token_set(c.text), terms)
        t       == Max(1, Cardinality(terms))
    IN  55 * c.score * t + 45 * overlap * ScoreOne
        + (IF overlap >= 2 THEN 10 * ScoreOne * t ELSE 0)

RECURSIVE InsertDesc(_, _)
\* x goes after every element whose key is at least its own (a stable sort)
InsertDesc(sorted, x) ==
    IF sorted = <<>> THEN <<x>>
    ELSE IF sorted[1].key >= x.key THEN <<sorted[1]>> \o InsertDesc(Tail(sorted), x)
    ELSE <<x>> \o sorted

RECURSIVE SortDesc(_)
\* list.sort(key=..., reverse=True) of [key, c] pairs
SortDesc(keyed) ==
    IF keyed = <<>> THEN <<>>
    ELSE InsertDesc(SortDesc(DropLastN(keyed, 1)), keyed[Len(keyed)])

\* scored.sort(key=score, reverse=True)
SortByKey(chunks, terms) ==
    LET sorted == SortDesc([i \in 1..Len(chunks) |->
                              [key |-> HybridKey(chunks[i], terms), c |-> chunks[i]]])
    IN  [i \in 1..Len(sorted) |-> sorted[i].c]

RECURSIVE Diversify(_, _, _)
\* the selection loop of _hybrid_rerank: skip a chunk already taken and a
\* chunk whose document already has 3; stop at limit
Diversify(scored, out, limit) ==
    IF scored = <<>> \/ Len(out) >= limit THEN out
    ELSE LET c == scored[1]
         IN  IF \/ \E i \in 1..Len(out) : out[i].chunk_id = c.chunk_id
                \/ DocCount(out, c.document_id) >= 3
             THEN Diversify(Tail(scored), out, limit)
             ELSE Diversify(Tail(scored), Append(out, c), limit)

\* A mutant of _hybrid_rerank: the per-document cap is not applied.
Mut_hybrid_rerank_nocap(chunks, terms, limit) ==
    IF chunks = <<>> THEN <<>>
    ELSE IF terms = {} THEN Take(chunks, limit)
    ELSE Take(SortByKey(chunks, terms), limit)

\* `break` follows the append, so a limit below 1 still lets one chunk in
_hybrid_rerank(chunks, terms, limit) ==
    IF chunks = <<>> THEN <<>>
    ELSE IF terms = {} THEN Take(chunks, limit)
    ELSE Diversify(SortByKey(chunks, terms), <<>>, Max(1, limit))

----------------------------------------------------------------------------
(* The store the pipeline reads: users, sources, documents, ACL rows,      *)
(* chunks with their embeddings, facts (src/api/app/db/models.py).  One    *)
(* tenant; workspace w1 holds an internal and a general-knowledge source,  *)
(* w2 holds sources whose documents grant nobody who asks, w3 holds none.  *)

WorkspaceRows == {"w1", "w2", "w3"}

UserRows ==
    { [id |-> "u1", tenant_id |-> "t1", email |-> "u1@corp"],
      [id |-> "u2", tenant_id |-> "t1", email |-> "u2@corp"] }

GroupMembershipRows == { [user_id |-> "u1", group_id |-> "g1"] }

\* in table order
SourceRows ==
    << [id |-> "s_int",  workspace_id |-> "w1", status |-> "active",   name |-> "handbook"],
       [id |-> "s_gkb",  workspace_id |-> "w1", status |-> "active",   name |-> "gkb:wiki"],
       [id |-> "s_old",  workspace_id |-> "w1", status |-> "disabled", name |-> "old wiki"],
       [id |-> "s_lic",  workspace_id |-> "w1", status |-> "active",   name |-> "license files"],
       [id |-> "s_w2",   workspace_id |-> "w2", status |-> "active",   name |-> "finance"],
       [id |-> "s_gkb2", workspace_id |-> "w2", status |-> "active",   name |-> "gkb:finance"] >>

\* names that fnmatch one of settings.ignored_source_name_patterns
IgnoredNames == {"license files", "readme"}

\* names that start with 'gkb:'
GkbNames == {"gkb:wiki", "gkb:finance"}

DocumentRows ==
    { [id |-> "d_usr",  source_id |-> "s_int",  title |-> "vpn policy",   url |-> "https://corp/1"],
      [id |-> "d_grp",  source_id |-> "s_int",  title |-> "incidents",    url |-> "https://corp/2"],
      [id |-> "d_eml",  source_id |-> "s_int",  title |-> "policies",     url |-> "https://corp/3"],
      [id |-> "d_sec",  source_id |-> "s_int",  title |-> "board memo",   url |-> "https://corp/4"],
      [id |-> "d_rdm",  source_id |-> "s_int",  title |-> "readme",       url |-> "https://corp/5"],
      [id |-> "d_gk",   source_id |-> "s_gkb",  title |-> "tls",          url |-> "https://wiki/1"],
      [id |-> "d_gks",  source_id |-> "s_gkb",  title |-> "tls internals", url |-> "https://wiki/2"],
      [id |-> "d_w2",   source_id |-> "s_w2",   title |-> "budget",       url |-> "https://corp/6"],
      [id |-> "d_gk2",  source_id |-> "s_gkb2", title |-> "ledger",       url |-> "https://wiki/3"] }

Document(id) == CHOOSE d \in DocumentRows : d.id = id

\* d_sec, d_gks, d_w2 and d_gk2 grant none of the users who ask
DocumentAclRows ==
    { [document_id |-> "d_usr", principal_type |-> "user",   principal_id |-> "u1"],
      [document_id |-> "d_grp", principal_type |-> "group",  principal_id |-> "g1"],
      [document_id |-> "d_eml", principal_type |-> "email",  principal_id |-> "u1@corp"],
      [document_id |-> "d_sec", principal_type |-> "user",   principal_id |-> "u3"],
      [document_id |-> "d_rdm", principal_type |-> "public", principal_id |-> "all"],
      [document_id |-> "d_gk",  principal_type |-> "public", principal_id |-> "all"],
      [document_id |-> "d_w2",  principal_type |-> "group",  principal_id |-> "g9"],
      [document_id |-> "d_gk2", principal_type |-> "user",   principal_id |-> "u3"] }

Text(id, toks, phr) == [id |-> id, tokens |-> toks, phrases |-> phr]

\* in table order; distance is the cosine distance of the chunk's embedding
\* to the query vector (0..2000 for 0.0..2.0), embedded says whether the
\* chunk has an Embedding row
ChunkRows ==
    << [id |-> "c_usr", document_id |-> "d_usr", distance |-> 200, embedded |-> TRUE,
        text |-> Text("c_usr", {"vpn", "policy", "that"}, {})],
       [id |-> "c_grp", document_id |-> "d_grp", distance |-> 600, embedded |-> TRUE,
        text |-> Text("c_grp", {"incident", "postmortem", "gdpr", "72", "hours"}, {"72 hours"})],
       [id |-> "c_eml", document_id |-> "d_eml", distance |-> 800, embedded |-> TRUE,
        text |-> Text("c_eml", {"policies"}, {})],
       [id |-> "c_sec", document_id |-> "d_sec", distance |-> 100, embedded |-> TRUE,
        text |-> Text("c_sec", {"vpn", "policy", "incident"}, {})],
       [id |-> "c_rdm", document_id |-> "d_rdm", distance |-> 300, embedded |-> TRUE,
        text |-> Text("c_rdm", {"vpn"}, {})],
       [id |-> "c_gk",  document_id |-> "d_gk",  distance |-> 60, embedded |-> TRUE,
        text |-> Text("c_gk", {"tls"}, {})],
       [id |-> "c_gks", document_id |-> "d_gks", distance |-> 40, embedded |-> TRUE,
        text |-> Text("c_gks", {"tls", "vpn"}, {})],
       [id |-> "c_w2",  document_id |-> "d_w2",  distance |-> 400, embedded |-> TRUE,
        text |-> Text("c_w2", {"budget"}, {})],
       [id |-> "c_gk2", document_id |-> "d_gk2", distance |-> 500, embedded |-> FALSE,
        text |-> Text("c_gk2", {"ledger"}, {})] >>

User(user_id, tenant_id) ==
    {u \in UserRows : u.id = user_id /\ u.tenant_id = tenant_id}

GroupsOf(user_id) == {m.group_id : m \in {g \in GroupMembershipRows : g.user_id = user_id}}

----------------------------------------------------------------------------
(* ACL-filtered vector search: retrieval_service.py 24-90 *)

\* the acl_exists subquery
AclExists(document_id, user_id, user_email) ==
    \E a \in DocumentAclRows :
        /\ a.document_id = document_id
        /\ \/ a.principal_type = "user"   /\ a.principal_id = user_id
           \/ a.principal_type = "email"  /\ a.principal_id = user_email
           \/ a.principal_type = "group"  /\ a.principal_id \in GroupsOf(user_id)
           \/ a.principal_type = "public" /\ a.principal_id = "all"

_distance_to_score(distance) == Max(0, Min(ScoreOne, ScoreOne - (distance \div 2)))

RetrievedChunk(row, score) ==
    [chunk_id |-> row.id, document_id |-> row.document_id,
     source_id |-> Document(row.document_id).source_id, text |-> row.text, score |-> score]

RECURSIVE OrderByDistance(_)
\* ORDER BY distance (the table order breaks a tie)
OrderByDistance(rows) ==
    IF rows = <<>> THEN <<>>
    ELSE LET i == CHOOSE i \in 1..Len(rows) :
                     /\ \A j \in 1..Len(rows) : rows[i].distance <= rows[j].distance
                     /\ \A j \in 1..(i - 1) : rows[j].distance > rows[i].distance
         IN  <<rows[i]>> \o OrderByDistance(SubSeq(rows, 1, i - 1) \o SubSeq(rows, i + 1, Len(rows)))

RECURSIVE MapScore(_)
MapScore(rows) ==
    IF rows = <<>> THEN <<>>
    ELSE <<RetrievedChunk(rows[1], _distance_to_score(rows[1].distance))>> \o MapScore(Tail(rows))

\* source_ids = {} stands for None and for the empty list: `if source_ids:`
\* adds the source filter only for a non-empty list
retrieve_acl_safe(user_id, user_email, top_k, source_ids) ==
    LET rows == SelectSeq(ChunkRows, LAMBDA r :
                    /\ r.embedded
                    /\ AclExists(r.document_id, user_id, user_email)
                    /\ (source_ids # {} => Document(r.document_id).source_id \in source_ids))
    IN  MapScore(Take(OrderByDistance(rows), top_k))

----------------------------------------------------------------------------
(* Queries.  A raw query is named by its text; what the pipeline reads off *)
(* it (ask_service.py 338-357, 521-541, 671-697) is tabulated here.        *)

QueryIds ==
    { "12 * (3 + 4)", "derivative of x^2", "what's that times 3", "vpn policy", "VPN  Policy",
      "what is tls", "who is ada", "incident postmortem process", "budget" }

\* WHITESPACE_RE.sub(' ', value.strip().lower())
_normalize_query(id) == IF id = "VPN  Policy" THEN "vpn policy" ELSE id

\* INTENT_HINTS, in dict order
Intents ==
    << "regions", "dr", "dr_retention", "zero_trust", "incident", "request_path",
       "observability", "secrets_auth", "cost_ops" >>

IntentSet == {Intents[i] : i \in 1..Len(Intents)}

NoIntent == ""

\* the (text, intent, number of that intent's hints in the text) triples
\* that are not 0
HintTable ==
    { <<"incident postmortem process", "incident", 2>>,
      <<"which cloud regions", "regions", 2>>,
      <<"which cloud regions", "dr", 1>>,
      <<"rto", "dr", 1>>,
      <<"data retention", "dr_retention", 2>>,
      <<"zero trust", "zero_trust", 1>>,
      <<"request flow", "request_path", 1>>,
      <<"monitoring", "observability", 1>>,
      <<"okta", "secrets_auth", 1>>,
      <<"api cost", "cost_ops", 2>> }

\* how many hints of each intent occur in a text
HintHits(id) ==
    [i \in IntentSet |->
        IF \E t \in HintTable : t[1] = id /\ t[2] = i
        THEN (CHOOSE t \in HintTable : t[1] = id /\ t[2] = i)[3]
        ELSE 0]

\* _query_terms of a raw query: its words longer than 2 that are no stop words
RawTerms(id) ==
    CASE id = "12 * (3 + 4)"                -> {}
      [] id = "derivative of x^2"           -> {"derivative"}
      [] id = "what's that times 3"         -> {"that", "times"}
      [] id = "vpn policy"                  -> {"vpn", "policy"}
      [] id = "what is tls"                 -> {"tls"}
      [] id = "who is ada"                  -> {"who", "ada"}
      [] id = "incident postmortem process" -> {"incident", "postmortem", "process"}
      [] id = "budget"                      -> {"budget"}
      [] OTHER                              -> {}

\* _is_general_query of a raw query
RawGeneral(id) == id \in {"12 * (3 + 4)", "what is tls", "who is ada"}

_is_followup_query(id) == id \in {"what's that times 3"}

QueryStr(id) ==
    [id |-> id, num |-> NotNumeric,
     len |-> CASE id = "12 * (3 + 4)"                -> 12
               [] id = "derivative of x^2"           -> 17
               [] id = "what's that times 3"         -> 19
               [] id = "vpn policy"                  -> 10
               [] id = "VPN  Policy"                 -> 11
               [] id = "what is tls"                 -> 11
               [] id = "who is ada"                  -> 10
               [] id = "incident postmortem process" -> 27
               [] id = "budget"                      -> 6
               [] OTHER                              -> 1]

\* The words _rewrite_query_with_context adds around its lines.
HeaderTerms == {"conversation", "context", "follow-up", "resolution"}

LineTerms(line) ==
    CASE line.kind = "summary" -> {"context", "summary"}
      [] line.kind = "q"       -> {"user", "asked"} \cup RawTerms(line.text.id)
      [] line.kind = "a"       -> {"assistant", "answered"}

\* The query answer_query retrieves with: the raw query, or the raw query
\* followed by context lines (hint).  Words of a summary and of an earlier
\* answer are not tabulated: they add no term of this store's vocabulary.
EffQuery(raw, hint) == [raw |-> raw, hint |-> hint]

RECURSIVE HintTerms(_)
HintTerms(hint) ==
    IF hint = <<>> THEN {} ELSE LineTerms(hint[1]) \cup HintTerms(Tail(hint))

_query_terms(q) ==
    RawTerms(_normalize_query(q.raw)) \cup (IF q.hint = <<>> THEN {} ELSE HeaderTerms \cup HintTerms(q.hint))

RECURSIVE HintIntentHits(_, _)
HintIntentHits(hint, i) ==
    IF hint = <<>> THEN 0
    ELSE (IF hint[1].kind = "q" THEN HintHits(hint[1].text.id)[i] ELSE 0)
         + HintIntentHits(Tail(hint), i)

IntentHits(q, i) == HintHits(_normalize_query(q.raw))[i] + HintIntentHits(q.hint, i)

\* startswith(general_starts) reads the head of the text, which rewriting
\* keeps; no text of this model holds an ORG_HINT
_is_general_query(q) == RawGeneral(_normalize_query(q.raw))

_detected_intents(q) == SelectSeq(Intents, LAMBDA i : IntentHits(q, i) > 0)

\* the stable sort by hits, descending, keeps dict order among equals
_primary_intent(q) ==
    LET found == _detected_intents(q)
    IN  IF found = <<>> THEN NoIntent
        ELSE found[CHOOSE k \in 1..Len(found) :
                     /\ \A j \in 1..Len(found) : IntentHits(q, found[j]) <= IntentHits(q, found[k])
                     /\ \A j \in 1..(k - 1) : IntentHits(q, found[j]) < IntentHits(q, found[k])]

INTENT_LEXICAL_TERMS ==
    [i \in IntentSet |->
        CASE i = "regions"       -> {"cloud regions", "us-east-1", "us-west-2", "primary cloud provider"}
          [] i = "dr"            -> {"multi-az", "cross-region", "s3", "backup", "rto", "failover",
                                     "us-east-1", "us-west-2", "replica"}
          [] i = "dr_retention"  -> {"long-term", "retention", "snowflake", "s3", "backup", "replica",
                                     "multi-az"}
          [] i = "zero_trust"    -> {"identity-aware", "zero-trust", "private subnet", "vpn", "rbac",
                                     "mfa", "mdm"}
          [] i = "incident"      -> {"p1", "incident", "24/7", "postmortem", "72 hours", "gdpr"}
          [] i = "request_path"  -> {"cdn", "waf", "load balancer", "kubernetes", "eks", "oauth 2.0",
                                     "okta", "postgresql", "redis"}
          [] i = "observability" -> {"prometheus", "grafana", "elk", "opentelemetry", "pagerduty",
                                     "metrics", "tracing", "logging"}
          [] i = "secrets_auth"  -> {"secrets manager", "automatic rotation", "oauth 2.0", "okta",
                                     "mfa", "rbac"}
          [] i = "cost_ops"      -> {"redis", "cache", "cdn", "hub-and-spoke", "vpc", "kubernetes",
                                     "observability", "multi-az"}]

_intent_lexical_terms(q) ==
    UNION {INTENT_LEXICAL_TERMS[i] : i \in {j \in IntentSet : IntentHits(q, j) > 0}}

----------------------------------------------------------------------------
(* Lanes, lexical search and lane fallback: ask_service.py 940-946,        *)
(* 1234-1434                                                               *)

IsPlaceholderUrl(url) == url = "https://example.local/doc"

_is_noisy_chunk(c) ==
    \/ IsPlaceholderUrl(Document(c.document_id).url)
    \/ Document(c.document_id).title \in IgnoredNames

NotNoisy(chunks) == SelectSeq(chunks, LAMBDA c : ~_is_noisy_chunk(c))

\* the active sources of the workspace whose names are not ignored, split by
\* the 'gkb:' prefix
_workspace_lanes(workspace_id) ==
    LET rows == {SourceRows[k] : k \in {j \in 1..Len(SourceRows) :
                    /\ SourceRows[j].workspace_id = workspace_id
                    /\ SourceRows[j].status = "active"
                    /\ SourceRows[j].name \notin IgnoredNames}}
    IN  [internal |-> {r.id : r \in {x \in rows : x.name \notin GkbNames}},
         general  |-> {r.id : r \in {x \in rows : x.name \in GkbNames}}]

\* Chunk.text ILIKE '%term%'
ILike(text, term) == term \in (text.tokens \cup text.phrases)

\* the terms that occur in some chunk of the store
StoreTerms == UNION {ChunkRows[k].text.tokens \cup ChunkRows[k].text.phrases : k \in 1..Len(ChunkRows)}

\* list(terms)[:8] and list(terms)[:12] take the first terms of the set in its
\* iteration order, which Python does not fix.  A pick is what the two
\* prefixes hold of the terms that occur in the store: p8 within the first 8,
\* p12 within the first 12, for some order of the terms.
TermPicks(terms) ==
    LET rel == terms \cap StoreTerms
        t   == Cardinality(terms)
        irr == t - Cardinality(rel)
        m8  == Min(8, t)
        m12 == Min(12, t)
    IN  { pk \in [p8 : SUBSET rel, p12 : SUBSET rel] :
            /\ pk.p8 \subseteq pk.p12
            /\ Cardinality(pk.p8) <= m8
            /\ m8 - Cardinality(pk.p8) <= irr
            /\ Cardinality(pk.p12) <= m12
            /\ m12 - Cardinality(pk.p12) <= irr
            /\ Cardinality(pk.p12) - Cardinality(pk.p8) <= m12 - m8 }

RECURSIVE MapLexical(_, _, _, _, _)
MapLexical(rows, terms, base, step, cap) ==
    IF rows = <<>> THEN <<>>
    ELSE <<RetrievedChunk(rows[1],
              Min(cap, base + step * _overlap_count(_token_set(rows[1].text), terms)))>>
         \o MapLexical(Tail(rows), terms, base, step, cap)

\* the rows of a lexical search: no ORDER BY (table order), no ACL predicate
LexicalRows(source_ids, clauses, limit) ==
    Take(SelectSeq(ChunkRows, LAMBDA r :
            /\ Document(r.document_id).source_id \in source_ids
            /\ \E t \in clauses : ILike(r.text, t)), limit)

\* score = min(0.95, 0.45 + 0.08 * overlap)
_retrieve_general_lexical(general_ids, terms, limit, clauses) ==
    IF general_ids = {} \/ terms = {} THEN <<>>
    ELSE MapLexical(LexicalRows(general_ids, clauses, limit), terms, 450, 80, 950)

\* score = min(0.98, 0.52 + 0.07 * overlap)
_retrieve_internal_lexical(source_ids, terms, limit, clauses) ==
    IF source_ids = {} \/ terms = {} THEN <<>>
    ELSE MapLexical(LexicalRows(source_ids, clauses, limit), terms, 520, 70, 980)

\* The blend of the two lanes once the internal lane is weak.
LaneBlend(req, user_email, top_k, terms, combined_terms, general_ids, internal_chunks, pick) ==
    LET lex  == NotNoisy(_retrieve_general_lexical(general_ids, combined_terms,
                                                   Max(3, top_k \div 2), pick.p8))
        vec  == Take(NotNoisy(_hybrid_rerank(
                        retrieve_acl_safe(req.user_id, user_email, Max(12, top_k * 2), general_ids),
                        combined_terms, Max(6, top_k))),
                     Max(3, top_k \div 2))
        general_chunks == IF lex # <<>> THEN lex ELSE vec
        general_slots  == Min(Max(2, top_k \div 3), Len(general_chunks))
        internal_slots == Max(0, top_k - general_slots)
    IN  IF general_chunks = <<>> THEN Take(internal_chunks, top_k)
        ELSE IF internal_chunks = <<>> THEN Take(general_chunks, top_k)
        ELSE Take(internal_chunks, internal_slots) \o Take(general_chunks, general_slots)

\* internal_chunks (1388-1403): the vector hits and the lexical hits of the
\* internal sources, reranked, without the noisy ones, cut to top_k
InternalChunks(req, user_email, top_k, combined_terms, internal_ids, pick) ==
    LET internal_raw     == retrieve_acl_safe(req.user_id, user_email, Max(top_k * 4, 24),
                                              internal_ids)
        lexical_internal == _retrieve_internal_lexical(internal_ids, combined_terms,
                                                       Max(8, top_k * 2), pick.p12)
    IN  Take(NotNoisy(_hybrid_rerank(internal_raw \o lexical_internal,
                                     combined_terms, top_k * 2)), top_k)

\* The internal lane and what follows it (1388-1434).
InternalLane(req, user_email, top_k, min_confidence, terms, combined_terms, internal_ids, general_ids, pick) ==
    LET internal_chunks == InternalChunks(req, user_email, top_k, combined_terms,
                                          internal_ids, pick)
    IN  IF general_ids = {} THEN internal_chunks
        ELSE IF /\ internal_chunks # <<>>
                /\ FracGE(_confidence(internal_chunks), min_confidence)
                /\ _max_overlap(internal_chunks, terms) >= 1
             THEN internal_chunks
        ELSE LaneBlend(req, user_email, top_k, terms, combined_terms, general_ids,
                       internal_chunks, pick)

\* req.query is the effective query; filters is the set of source ids of
\* req.filters['source_ids'] ({}: none given); min_confidence in thousandths
_retrieve_with_lane_fallback(req, user_email, top_k, min_confidence, pick) ==
    IF req.filters # {}
    THEN Take(NotNoisy(_hybrid_rerank(
                  retrieve_acl_safe(req.user_id, user_email, Max(top_k * 4, 20), req.filters),
                  _query_terms(req.query), top_k * 2)), top_k)
    ELSE
    LET lanes          == _workspace_lanes(req.workspace_id)
        internal_ids   == lanes.internal
        general_ids    == IF req.use_general_knowledge THEN lanes.general ELSE {}
        terms          == _query_terms(req.query)
        combined_terms == terms \cup _intent_lexical_terms(req.query)
        lex  == NotNoisy(_retrieve_general_lexical(general_ids, combined_terms, top_k, pick.p8))
        vec  == NotNoisy(_hybrid_rerank(
                    retrieve_acl_safe(req.user_id, user_email, Max(top_k * 2, 12), general_ids),
                    combined_terms, top_k))
        general_chunks == IF lex # <<>> THEN lex ELSE vec
    IN  IF _is_general_query(req.query) /\ general_ids # {} /\ general_chunks # <<>>
        THEN Take(general_chunks, top_k)
        ELSE InternalLane(req, user_email, top_k, min_confidence, terms, combined_terms,
                          internal_ids, general_ids, pick)

----------------------------------------------------------------------------
(* Fact Engine: ask_service.py 30-56, 219-240, 455-493, 711-889.  A fact   *)
(* value and a label are the text itself; a confidence stored in the facts *)
(* table is in thousandths.                                                *)

INTENT_FACT_KEYS ==
    [i \in IntentSet |->
        CASE i = "regions"       -> <<"cloud.primary_regions", "cloud.multi_az",
                                      "cloud.cross_region_replication">>
          [] i = "dr"            -> <<"cloud.multi_az", "cloud.cross_region_s3_backup",
                                      "cloud.cross_region_replication", "dr.rto", "dr.frankfurt",
                                      "dr.direct_connect">>
          [] i = "dr_retention"  -> <<"cloud.multi_az", "cloud.cross_region_s3_backup",
                                      "cloud.cross_region_replication", "dr.automated_backup",
                                      "dr.quarterly_failover", "data.snowflake">>
          [] i = "zero_trust"    -> <<"network.iap", "network.private_subnets", "network.vpn",
                                      "auth.rbac", "auth.mfa", "auth.mdm", "network.zero_trust",
                                      "network.waf", "network.load_balancer">>
          [] i = "incident"      -> <<"incident.p1", "incident.24_7", "incident.postmortem",
                                      "incident.72h", "incident.gdpr">>
          [] i = "request_path"  -> <<"network.cdn", "network.waf", "network.load_balancer",
                                      "app.kubernetes", "auth.oauth2", "auth.okta",
                                      "data.postgresql", "data.redis">>
          [] i = "observability" -> <<"observability.prometheus", "observability.grafana",
                                      "observability.elk", "observability.opentelemetry",
                                      "observability.pagerduty">>
          [] i = "secrets_auth"  -> <<"auth.secrets_manager", "auth.oauth2", "auth.okta",
                                      "auth.mfa", "auth.rbac", "auth.mdm", "network.vpn">>
          [] i = "cost_ops"      -> <<"data.redis", "network.cdn", "arch.hub_spoke_vpc",
                                      "app.kubernetes", "cloud.multi_az",
                                      "observability.prometheus">>]

INTENT_REQUIRED_FACT_KEYS ==
    [i \in IntentSet |->
        CASE i = "regions"       -> {"cloud.primary_regions"}
          [] i = "dr"            -> {"cloud.multi_az", "cloud.cross_region_s3_backup", "dr.rto"}
          [] i = "dr_retention"  -> {"cloud.cross_region_s3_backup", "cloud.multi_az",
                                     "data.snowflake"}
          [] i = "zero_trust"    -> {"network.iap", "network.private_subnets", "network.vpn",
                                     "auth.rbac", "auth.mfa"}
          [] i = "incident"      -> {"incident.p1", "incident.postmortem", "incident.72h",
                                     "incident.gdpr"}
          [] i = "request_path"  -> {"network.cdn", "network.waf", "network.load_balancer",
                                     "app.kubernetes", "data.postgresql"}
          [] i = "observability" -> {"observability.prometheus", "observability.grafana",
                                     "observability.elk", "observability.opentelemetry"}
          [] i = "secrets_auth"  -> {"auth.secrets_manager", "auth.oauth2", "auth.okta",
                                     "auth.mfa"}
          [] i = "cost_ops"      -> {"data.redis", "network.cdn", "app.kubernetes"}]

\* CANONICAL_LABEL_BY_PERSONA.get(persona, {}).get(label); "" stands for None
CANONICAL_LABEL_BY_PERSONA(persona, label) ==
    CASE persona = "sales" ->
           (CASE label = "Primary AWS regions: us-east-1 and us-west-2"
                                                        -> "Primary cloud regions: us-east-1 and us-west-2"
              [] label = "Multi-AZ deployments"           -> "High-availability deployment zones"
              [] label = "cross-region database replicas" -> "Cross-region database copies"
              [] label = "cross-region S3 backups"        -> "Cross-region cloud backups"
              [] label = "cross-region s3 backup"         -> "Cross-region cloud backup"
              [] label = "disaster recovery drills"       -> "Regular disaster recovery drills"
              [] label = "RTO of 2 hours"                 -> "Recovery target: 2 hours"
              [] label = "identity-aware proxy"           -> "Identity-based access gateway"
              [] label = "RBAC"                           -> "Role-based access controls"
              [] label = "MFA"                            -> "Multi-factor authentication"
              [] label = "MDM compliance"                 -> "Managed-device policy compliance"
              [] label = "Kubernetes (EKS)"               -> "Managed container platform"
              [] label = "PostgreSQL"                     -> "Primary relational data store"
              [] label = "OpenTelemetry"                  -> "Distributed tracing"
              [] OTHER                                    -> "")
      [] persona = "exec" ->
           (CASE label = "Multi-AZ deployments"           -> "Multi-zone resiliency"
              [] label = "cross-region database replicas" -> "Cross-region data replication"
              [] label = "cross-region S3 backups"        -> "Cross-region backup coverage"
              [] label = "RTO of 2 hours"                 -> "Recovery objective: 2 hours"
              [] label = "identity-aware proxy"           -> "Identity-based access control"
              [] label = "RBAC"                           -> "Role-based controls"
              [] label = "MFA"                            -> "Multi-factor authentication"
              [] OTHER                                    -> "")
      [] OTHER -> ""

_render_canonical_label(label, persona, technical_depth) ==
    LET mapped  == CANONICAL_LABEL_BY_PERSONA(persona, label)
        generic == CASE label = "Kubernetes (EKS)" -> "Managed application platform"
                     [] label = "PostgreSQL"       -> "Core application database"
                     [] label = "OpenTelemetry"    -> "Tracing system"
                     [] OTHER                      -> label
    IN  IF technical_depth = "high" THEN label
        ELSE IF technical_depth = "low" /\ mapped # "" THEN mapped
        ELSE IF technical_depth = "low" /\ persona # "engineering" THEN generic
        ELSE label

\* conciseness in thousandths
_conciseness_bucket(value) ==
    IF value >= 750 THEN "high" ELSE IF value >= 500 THEN "medium" ELSE "low"

_max_bullets_from_conciseness(value) ==
    IF value >= 750 THEN 3 ELSE IF value >= 500 THEN 4 ELSE IF value >= 250 THEN 5 ELSE 6

_max_citations_from_conciseness(value) ==
    IF value >= 750 THEN 2 ELSE IF value >= 500 THEN 3 ELSE 4

_tone_prefix(tone) ==
    CASE tone = "friendly" -> "Here is the short answer:"
      [] tone = "critical" -> "Evidence-backed answer (strict):"
      [] OTHER             -> "Answer:"

Range(s) == {s[k] : k \in 1..Len(s)}

RECURSIVE Dedupe(_, _)
\* the first occurrences of a list, in order
Dedupe(keys, out) ==
    IF keys = <<>> THEN out
    ELSE Dedupe(Tail(keys), IF keys[1] \in Range(out) THEN out ELSE Append(out, keys[1]))

RECURSIVE KeysOfIntents(_)
KeysOfIntents(intents) ==
    IF intents = <<>> THEN <<>>
    ELSE INTENT_FACT_KEYS[intents[1]] \o KeysOfIntents(Tail(intents))

_fact_keys_for_query(q) ==
    LET found   == _detected_intents(q)
        primary == _primary_intent(q)
        intents == IF primary # NoIntent /\ primary \in Range(found)
                   THEN <<primary>> \o SelectSeq(found, LAMBDA i : i # primary)
                   ELSE found
    IN  Dedupe(KeysOfIntents(intents), <<>>)

\* A mutant of _meets_fact_coverage: the threshold is rounded down.
Mut_meets_fact_coverage_floor(intent, seen_keys) ==
    IF intent = NoIntent \/ intent \notin IntentSet THEN TRUE
    ELSE LET required == INTENT_REQUIRED_FACT_KEYS[intent]
         IN  \/ required = {}
             \/ Cardinality(required \cap seen_keys)
                   >= Max(1, (6 * Cardinality(required)) \div 10)

\* need = max(1, int(math.ceil(len(required) * 0.6))); for the sizes 1..9 the
\* float product rounds up to (6 * len + 9) div 10
_meets_fact_coverage(intent, seen_keys) ==
    IF intent = NoIntent \/ intent \notin IntentSet THEN TRUE
    ELSE LET required == INTENT_REQUIRED_FACT_KEYS[intent]
         IN  \/ required = {}
             \/ Cardinality(required \cap seen_keys)
                   >= Max(1, (6 * Cardinality(required) + 9) \div 10)

\* The (fact_key, fact_value, confidence) triples that ingestion extracts
\* (_extract_facts_from_text).
ExtractedFacts ==
    {
      <<"cloud.primary_regions", "Primary cloud regions: us-east-1 and us-west-2", 950>>,
      <<"cloud.multi_az", "Multi-AZ deployments", 900>>,
      <<"cloud.cross_region_s3_backup", "cross-region s3 backup", 900>>,
      <<"cloud.cross_region_replication", "cross-region database replicas", 880>>,
      <<"dr.rto", "RTO of 2 hours", 920>>,
      <<"dr.frankfurt", "Frankfurt data center", 900>>,
      <<"dr.direct_connect", "site-to-site VPN and Direct Connect", 880>>,
      <<"dr.quarterly_failover", "quarterly failover drills", 900>>,
      <<"dr.automated_backup", "automated backup systems", 880>>,
      <<"observability.prometheus", "Prometheus", 900>>,
      <<"observability.grafana", "Grafana", 900>>,
      <<"observability.elk", "ELK", 900>>,
      <<"observability.opentelemetry", "OpenTelemetry", 900>>,
      <<"observability.pagerduty", "PagerDuty", 880>>,
      <<"auth.oauth2", "OAuth 2.0", 880>>,
      <<"auth.okta", "Okta", 880>>,
      <<"auth.secrets_manager", "AWS Secrets Manager with automatic rotation", 900>>,
      <<"auth.mfa", "MFA", 880>>,
      <<"auth.rbac", "RBAC", 880>>,
      <<"auth.mdm", "MDM compliance", 850>>,
      <<"network.vpn", "VPN required for production access", 820>>,
      <<"network.iap", "identity-aware proxy", 850>>,
      <<"network.zero_trust", "zero-trust access enforcement", 880>>,
      <<"network.private_subnets", "private subnets", 850>>,
      <<"network.waf", "WAF", 830>>,
      <<"network.load_balancer", "Load balancer", 840>>,
      <<"network.cdn", "CDN", 830>>,
      <<"data.postgresql", "PostgreSQL", 860>>,
      <<"data.redis", "Redis", 860>>,
      <<"data.snowflake", "Snowflake long-term analytics storage", 860>>,
      <<"incident.p1", "P1", 860>>,
      <<"incident.postmortem", "postmortem required", 860>>,
      <<"incident.72h", "72 hours", 860>>,
      <<"incident.24_7", "24/7 incident response team", 900>>,
      <<"incident.gdpr", "GDPR procedures", 860>>,
      <<"app.kubernetes", "Kubernetes (EKS)", 870>>,
      <<"arch.hub_spoke_vpc", "Hub-and-spoke VPC model", 880>> }

FactRow(key, document_id, chunk_id, workspace_id) ==
    LET t == CHOOSE t \in ExtractedFacts : t[1] = key
    IN  [fact_key |-> key, fact_value |-> t[2], confidence |-> t[3],
         document_id |-> document_id, chunk_id |-> chunk_id, workspace_id |-> workspace_id]

Source(id) == CHOOSE k \in Range(SourceRows) : k.id = id

RECURSIVE OrderByConfidence(_)
\* ORDER BY confidence DESC (the table order breaks a tie)
OrderByConfidence(rows) ==
    IF rows = <<>> THEN <<>>
    ELSE LET i == CHOOSE i \in 1..Len(rows) :
                     /\ \A j \in 1..Len(rows) : rows[j].confidence <= rows[i].confidence
                     /\ \A j \in 1..(i - 1) : rows[j].confidence < rows[i].confidence
         IN  <<rows[i]>> \o OrderByConfidence(SubSeq(rows, 1, i - 1) \o SubSeq(rows, i + 1, Len(rows)))

RetrievedFact(r) ==
    [fact_key |-> r.fact_key, fact_value |-> r.fact_value, confidence |-> r.confidence,
     document_id |-> r.document_id, title |-> Document(r.document_id).title,
     url |-> Document(r.document_id).url, chunk_id |-> r.chunk_id]

RECURSIVE MapFact(_)
MapFact(rows) ==
    IF rows = <<>> THEN <<>> ELSE <<RetrievedFact(rows[1])>> \o MapFact(Tail(rows))

_retrieve_acl_facts(req, user_email, fact_keys, limit) ==
    IF fact_keys = <<>> THEN <<>>
    ELSE LET rows == SelectSeq(fact_rows, LAMBDA f :
                        /\ f.workspace_id = req.workspace_id
                        /\ f.fact_key \in Range(fact_keys)
                        /\ AclExists(f.document_id, req.user_id, user_email)
                        /\ (~req.use_general_knowledge =>
                               Source(Document(f.document_id).source_id).name \notin GkbNames))
             kept == SelectSeq(Take(OrderByConfidence(rows), limit),
                               LAMBDA f : ~IsPlaceholderUrl(Document(f.document_id).url))
         IN  MapFact(kept)

\* by_key: the first fact of each key
ByKey(facts) ==
    [k \in {facts[i].fact_key : i \in 1..Len(facts)} |->
        facts[CHOOSE i \in 1..Len(facts) :
                 /\ facts[i].fact_key = k
                 /\ \A j \in 1..(i - 1) : facts[j].fact_key # k]]

RECURSIVE FactBullets(_, _, _, _, _, _)
\* the loop that fills ordered_vals
FactBullets(keys, by_key, persona, technical_depth, max_bullets, ordered_vals) ==
    IF keys = <<>> THEN ordered_vals
    ELSE IF keys[1] \notin DOMAIN by_key
         THEN FactBullets(Tail(keys), by_key, persona, technical_depth, max_bullets, ordered_vals)
    ELSE LET label == _render_canonical_label(by_key[keys[1]].fact_value, persona, technical_depth)
         IN  IF label \in Range(ordered_vals)
             THEN FactBullets(Tail(keys), by_key, persona, technical_depth, max_bullets, ordered_vals)
             ELSE IF Len(ordered_vals) + 1 >= max_bullets THEN Append(ordered_vals, label)
             ELSE FactBullets(Tail(keys), by_key, persona, technical_depth, max_bullets,
                              Append(ordered_vals, label))

Citation(document_id, title, url, chunk_id) ==
    [document_id |-> document_id, title |-> title, url |-> url, heading_path |-> "",
     chunk_id |-> chunk_id]

RECURSIVE FactCitations(_, _, _, _)
\* the loop that fills citations, one per document
FactCitations(keys, by_key, max_citations, citations) ==
    IF keys = <<>> THEN citations
    ELSE IF keys[1] \notin DOMAIN by_key
         THEN FactCitations(Tail(keys), by_key, max_citations, citations)
    ELSE LET f == by_key[keys[1]]
         IN  IF f.document_id \in {citations[i].document_id : i \in 1..Len(citations)}
             THEN FactCitations(Tail(keys), by_key, max_citations, citations)
             ELSE IF Len(citations) + 1 >= max_citations
                  THEN Append(citations, Citation(f.document_id, f.title, f.url, f.chunk_id))
             ELSE FactCitations(Tail(keys), by_key, max_citations,
                                Append(citations, Citation(f.document_id, f.title, f.url, f.chunk_id)))

RECURSIVE SumConfidence(_, _)
SumConfidence(by_key, keys) ==
    IF keys = {} THEN 0
    ELSE LET k == CHOOSE k \in keys : TRUE
         IN  by_key[k].confidence + SumConfidence(by_key, keys \ {k})

\* what _fact_first_answer returns for None
NoAnswer == [mode |-> "none"]

_fact_first_answer(req, user_email, persona, technical_depth, output_tone, conciseness) ==
    LET keys        == _fact_keys_for_query(req.query)
        intent      == _primary_intent(req.query)
        facts       == _retrieve_acl_facts(req, user_email, keys, 24)
        by_key      == ByKey(facts)
        bullets0    == _max_bullets_from_conciseness(conciseness)
        bullets1    == IF intent \in {"zero_trust", "request_path", "incident", "dr"}
                       THEN Max(bullets0, 4) ELSE bullets0
        max_bullets == IF intent = "zero_trust" THEN Max(bullets1, 6) ELSE bullets1
        ordered_vals == FactBullets(keys, by_key, persona, technical_depth, max_bullets, <<>>)
        lead        == IF intent = "zero_trust"
                       THEN "TechNova enforces zero-trust with layered controls across network and production access:"
                       ELSE _tone_prefix(output_tone)
        citations   == FactCitations(keys, by_key, _max_citations_from_conciseness(conciseness), <<>>)
        num         == SumConfidence(by_key, DOMAIN by_key)
        den         == ScoreOne * Max(1, Cardinality(DOMAIN by_key))
    IN  IF keys = <<>> THEN NoAnswer
        ELSE IF facts = <<>> THEN NoAnswer
        ELSE IF ordered_vals = <<>> THEN NoAnswer
        ELSE IF ~_meets_fact_coverage(intent, DOMAIN by_key) THEN NoAnswer
        ELSE [answer |-> [lead |-> lead, bullets |-> ordered_vals],
              citations |-> citations,
              confidence |-> Frac(Max(0, Min(den, num)), den),
              suggested_followups |-> <<"Show source excerpts">>,
              cache_hit |-> FALSE,
              mode |-> "fact"]

----------------------------------------------------------------------------
(* answer_query, its helpers: ask_service.py 360-441, 567-668, 964-1029,   *)
(* 1164-1231; policy_engine.py; cache_service.py                           *)

\* POLICIES.get(persona, POLICIES['engineering']); min_confidence in
\* thousandths
get_policy(persona) ==
    CASE persona = "sales" -> [retrieval_top_k |-> 10, min_confidence |-> 420,
                               cache_ttl_seconds |-> 600]
      [] persona = "exec"  -> [retrieval_top_k |-> 8, min_confidence |-> 450,
                               cache_ttl_seconds |-> 300]
      [] OTHER             -> [retrieval_top_k |-> 10, min_confidence |-> 400,
                               cache_ttl_seconds |-> 300]

_normalize_depth(value, persona) ==
    IF value \in {"low", "medium", "high"} THEN value
    ELSE IF persona = "sales" THEN "low"
    ELSE IF persona = "engineering" THEN "high"
    ELSE "medium"

_normalize_tone(value) == IF value \in {"friendly", "direct", "critical"} THEN value ELSE "direct"

\* conversationalness in thousandths
_conversation_bucket(value) ==
    IF value < 340 THEN "low" ELSE IF value > 660 THEN "high" ELSE "medium"

RECURSIVE ContextLines(_)
\* the 'User asked:' and 'Assistant answered:' lines of the recent turns
ContextLines(recent) ==
    IF recent = <<>> THEN <<>>
    ELSE LET user_q == _compact_text(recent[1].q, 180)
             ans    == _compact_text(recent[1].a, 180)
         IN  (IF user_q.len > 0 THEN <<[kind |-> "q", text |-> user_q]>> ELSE <<>>)
             \o (IF ans.len > 0 THEN <<[kind |-> "a", text |-> ans]>> ELSE <<>>)
             \o ContextLines(Tail(recent))

_rewrite_query_with_context(query, state) ==
    LET summary == _compact_text(state.summary, 600)
        lines   == (IF summary.len > 0 THEN <<[kind |-> "summary", text |-> summary]>> ELSE <<>>)
                   \o ContextLines(LastN(state.turns, 2))
    IN  IF state.turns = <<>> /\ summary.len = 0 THEN EffQuery(query, <<>>)
        ELSE IF ~_is_followup_query(query) THEN EffQuery(query, <<>>)
        ELSE EffQuery(query, lines)

RECURSIVE _last_numeric_answer(_)
\* the last turn whose answer is a numeral; NotNumeric stands for None
_last_numeric_answer(turns) ==
    IF turns = <<>> THEN NotNumeric
    ELSE IF turns[Len(turns)].a.num # NotNumeric THEN turns[Len(turns)].a.num
    ELSE _last_numeric_answer(DropLastN(turns, 1))

AskResponse(answer, citations, confidence, suggested_followups, cache_hit, mode) ==
    [answer |-> answer, citations |-> citations, confidence |-> confidence,
     suggested_followups |-> suggested_followups, cache_hit |-> cache_hit, mode |-> mode]

\* f'{out}' of a non-negative whole number
NumeralStr(n) ==
    [id |-> "numeral", num |-> n,
     len |-> IF n < 10 THEN 1 ELSE IF n < 100 THEN 2 ELSE IF n < 1000 THEN 3
             ELSE IF n < 10000 THEN 4 ELSE 5]

\* A mutant of _basic_query_answer: the earlier turns are not consulted.
Mut_basic_query_answer_nocontext(req, prior_turns) ==
    IF req.query = "derivative of x^2"
    THEN AskResponse(Str("2x", 2), <<>>, Frac(1, 1), <<>>, FALSE, "basic")
    ELSE IF req.query = "12 * (3 + 4)"
    THEN AskResponse(NumeralStr(84), <<>>, Frac(1, 1), <<>>, FALSE, "basic")
    ELSE NoAnswer

\* _simple_derivative, then _safe_eval_arithmetic, then, with earlier turns,
\* _resolve_context_arithmetic on the last numeric answer
_basic_query_answer(req, prior_turns) ==
    LET base == _last_numeric_answer(prior_turns)
    IN  IF req.query = "derivative of x^2"
        THEN AskResponse(Str("2x", 2), <<>>, Frac(1, 1), <<>>, FALSE, "basic")
        ELSE IF req.query = "12 * (3 + 4)"
        THEN AskResponse(NumeralStr(84), <<>>, Frac(1, 1), <<>>, FALSE, "basic")
        ELSE IF req.query = "what's that times 3" /\ prior_turns # <<>> /\ base # NotNumeric
        THEN AskResponse(NumeralStr(base * 3), <<>>, Frac(1, 1), <<>>, FALSE, "basic")
        ELSE NoAnswer

\* sha256 of the joined chunk texts: the texts, in order
_context_hash(chunks) == [i \in 1..Len(chunks) |-> chunks[i].text.id]

_answer_cache_key(persona, query, technical_depth, output_tone, conciseness_bucket, conversationalness_bucket, fast_mode, context_hash) ==
    [persona |-> persona, technical_depth |-> technical_depth, output_tone |-> output_tone,
     conciseness_bucket |-> conciseness_bucket,
     conversationalness_bucket |-> conversationalness_bucket, fast_mode |-> fast_mode,
     query |-> [raw |-> _normalize_query(query.raw), hint |-> query.hint],
     context_hash |-> context_hash]

RECURSIVE CiteLoop(_, _, _)
\* one loop of _citations_from_chunk_ids: a trusted chunk of a document not
\* cited yet is cited, until max_items are
CiteLoop(cands, out, max_items) ==
    IF cands = <<>> THEN out
    ELSE LET c == cands[1]
         IN  IF \/ _is_noisy_chunk(c)
                \/ c.document_id \in {out[i].document_id : i \in 1..Len(out)}
             THEN CiteLoop(Tail(cands), out, max_items)
             ELSE IF Len(out) + 1 >= max_items
                  THEN Append(out, Citation(c.document_id, Document(c.document_id).title,
                                            Document(c.document_id).url, c.chunk_id))
             ELSE CiteLoop(Tail(cands),
                           Append(out, Citation(c.document_id, Document(c.document_id).title,
                                                Document(c.document_id).url, c.chunk_id)),
                           max_items)

RECURSIVE ByChunkIds(_, _)
\* by_chunk.get(cid) for each cid: the last chunk of that id
ByChunkIds(chunks, chunk_ids) ==
    IF chunk_ids = <<>> THEN <<>>
    ELSE LET at == {i \in 1..Len(chunks) : chunks[i].chunk_id = chunk_ids[1]}
         IN  (IF at = {} THEN <<>> ELSE <<chunks[CHOOSE i \in at : \A j \in at : j <= i]>>)
             \o ByChunkIds(chunks, Tail(chunk_ids))

_citations_from_chunk_ids(chunks, chunk_ids, query_terms, max_items) ==
    LET first == CiteLoop(ByChunkIds(chunks, chunk_ids), <<>>, max_items)
        rest  == SelectSeq(chunks, LAMBDA c :
                     /\ _overlap_count(_token_set(c.text), query_terms) >= 2
                     /\ c.score >= 600)
    IN  IF Len(first) >= max_items THEN first
        ELSE Take(CiteLoop(rest, first, max_items), max_items)

\* 1000 times the score line 993-997 gives a sentence; a text of the store is
\* one sentence of 20 to 220 characters, "72" is its one token with a digit
ExtractKey(c, terms) ==
    2000 * _overlap_count(_token_set(c.text), terms) + c.score
    + (IF c.text.tokens \cap {"aws", "okta", "oauth", "rbac", "mfa", "waf", "cdn", "redis",
                              "postgres", "prometheus", "grafana", "elk", "opentelemetry",
                              "pagerduty", "gdpr", "soc"} # {} THEN 800 ELSE 0)
    + (IF "72" \in c.text.tokens THEN 250 ELSE 0)

\* candidates, sorted: the sentences with enough of the query's terms
ExtractCandidates(chunks, terms) ==
    SortDesc(SelectSeq([i \in 1..Len(chunks) |->
                           [key |-> ExtractKey(chunks[i], terms), c |-> chunks[i]]],
                       LAMBDA k : \/ terms = {}
                                  \/ _overlap_count(_token_set(k.c.text), terms)
                                        >= (IF Cardinality(terms) <= 4 THEN 1 ELSE 2)))

RECURSIVE PickSentences(_, _, _)
\* the loop over candidates: a sentence not seen yet is picked, until
\* max_bullets are.  A sentence is named after its chunk.
PickSentences(candidates, picked, max_bullets) ==
    IF candidates = <<>> THEN picked
    ELSE IF candidates[1].c.text.id \in Range(picked)
         THEN PickSentences(Tail(candidates), picked, max_bullets)
    ELSE IF Len(picked) + 1 >= max_bullets THEN Append(picked, candidates[1].c.text.id)
    ELSE PickSentences(Tail(candidates), Append(picked, candidates[1].c.text.id), max_bullets)

\* the LlmAnswer made of the picked sentences
ExtractiveAnswer(picked, output_tone) ==
    IF picked = <<>>
    THEN [answer |-> Str("I do not have enough relevant evidence to answer this precisely.", 64),
          followups |-> <<"Rephrase the question", "Enable general knowledge",
                          "Ask a narrower question">>,
          cited_chunk_ids |-> <<>>, insufficient_evidence |-> TRUE]
    ELSE [answer |-> Str(picked[1], 60 * Len(picked) + Len(_tone_prefix(output_tone))),
          followups |-> <<"Show source excerpts", "Give a shorter summary">>,
          cited_chunk_ids |-> picked, insufficient_evidence |-> FALSE]

_fallback_extractive_answer(query, chunks, output_tone, conciseness) ==
    ExtractiveAnswer(PickSentences(ExtractCandidates(chunks, _query_terms(query)), <<>>,
                                   _max_bullets_from_conciseness(conciseness)),
                     output_tone)

\* What synthesize_grounded_answer and the text checks on its answer
\* (_is_weak_llm_answer, _supported_answer_lines) can come to: the call
\* fails (a timeout, an HTTP error status, a reply or a content that is not
\* JSON: each raises inside synthesize_grounded_answer), or the answer is
\* weak, or the reply holds no answer and llm_service.py 136-137 puts its
\* placeholder there ("empty"), or the answer is one of two texts, with or
\* without cited chunks and the insufficient-evidence flag; supported says
\* whether _supported_answer_lines keeps a line of the answer in hand.
LlmOutcomes ==
    { o \in [kind : {"error", "weak", "answer"}, text : {"llm answer a", "llm answer b"},
             cited : BOOLEAN, insufficient_evidence : BOOLEAN, supported : BOOLEAN] :
        /\ o.kind # "answer" => (o.text = "llm answer a" /\ ~o.cited /\ ~o.insufficient_evidence)
        /\ o.text = "llm answer b" => (o.cited /\ ~o.insufficient_evidence /\ ~o.supported) }

\* the reply holds no answer; no line of the placeholder is supported
EmptyOutcome ==
    [kind |-> "empty", text |-> "llm answer a", cited |-> FALSE,
     insufficient_evidence |-> FALSE, supported |-> FALSE]

\* llm_service.py 136-137: the answer put in place of an empty one.  It has
\* eleven words and no colon at its end: _is_weak_llm_answer is false on it.
PlaceholderAnswer == Str("I could not produce a grounded answer from the available evidence.", 66)

\* the call of synthesize_grounded_answer as answer_query sees it
LlmCall(o) ==
    CASE o.kind = "error" -> <<"synthesize_grounded_answer", "raised">>
      [] o.kind = "weak"  -> <<"synthesize_grounded_answer", "_is_weak_llm_answer">>
      [] o.kind = "empty" -> <<"synthesize_grounded_answer", "no answer in reply">>
      [] OTHER            -> <<"synthesize_grounded_answer">>

\* the LlmAnswer of synthesize_grounded_answer for an outcome
LlmAnswer(o, chunks) ==
    [answer |-> IF o.kind = "empty" THEN PlaceholderAnswer ELSE Str(o.text, 400),
     followups |-> <<>>,
     cited_chunk_ids |-> IF o.cited THEN [i \in 1..Len(chunks) |-> chunks[i].chunk_id] ELSE <<>>,
     insufficient_evidence |-> o.insufficient_evidence]

\* Lines 1596-1625: the support filter and the fallbacks after it.  The kept
\* lines are a part of the answer's text and cite the chunk they match.
GroundedLlm(llm, fallback, chunks, confident, supported) ==
    IF supported
    THEN [answer |-> Str(llm.answer.id, (llm.answer.len \div 2) + 8),
          followups |-> llm.followups, cited_chunk_ids |-> <<chunks[1].chunk_id>>,
          insufficient_evidence |-> FALSE]
    ELSE IF ~llm.insufficient_evidence /\ confident THEN llm
    ELSE IF ~llm.insufficient_evidence THEN fallback
    ELSE IF confident /\ ~fallback.insufficient_evidence THEN fallback
    ELSE llm

OrElse(list, default) == IF list = <<>> THEN default ELSE list

\* A mutant of the fast state: its payload carries the mode of the
\* generative state.
Mut_FastPayload_grounded(llm, chunks, terms, max_items, confidence) ==
    AskResponse(llm.answer,
                _citations_from_chunk_ids(chunks, llm.cited_chunk_ids, terms, Min(2, max_items)),
                confidence, OrElse(llm.followups, <<"Ask for explain mode">>), FALSE, "grounded")

\* Lines 1539-1561: the payload of the fast state.
FastPayload(llm, chunks, terms, max_items, confidence) ==
    AskResponse(llm.answer,
                _citations_from_chunk_ids(chunks, llm.cited_chunk_ids, terms, Min(2, max_items)),
                confidence, OrElse(llm.followups, <<"Ask for explain mode">>), FALSE, "fast")

\* Lines 1627-1651: the payload of the generative state.
GroundedPayload(llm, chunks, terms, max_items, confidence, floor) ==
    IF llm.insufficient_evidence \/ ~FracGE(confidence, floor)
    THEN AskResponse(Str("I found partial evidence but not enough to answer with high confidence.", 121),
                     _citations_from_chunk_ids(chunks, llm.cited_chunk_ids, terms, max_items),
                     confidence,
                     OrElse(llm.followups,
                            <<"Narrow time window", "Specify target system or document">>),
                     FALSE, "followup")
    ELSE AskResponse(llm.answer,
                     _citations_from_chunk_ids(chunks, llm.cited_chunk_ids, terms, max_items),
                     confidence,
                     OrElse(llm.followups,
                            <<"Show sources", "Provide a deeper technical explanation">>),
                     FALSE, "grounded")

\* Lines 1519-1651: the payload of a request that missed the answer cache;
\* o is what the language model comes to if it is called.
AnswerPayload(req, query, chunks, tone, conciseness, min_confidence, o) ==
    IF FracGE(_confidence(chunks), 900) /\ ~req.explain /\ ~req.fast_mode
    THEN AskResponse(Str("High-confidence grounded result. Use explain for a richer synthesis.", 70),
                     _citations_from_chunk_ids(chunks,
                         [i \in 1..Len(chunks) |-> chunks[i].chunk_id],
                         _query_terms(EffQuery(req.query, <<>>)),
                         _max_citations_from_conciseness(conciseness)),
                     _confidence(chunks),
                     <<"Explain this in more detail", "Compare with last quarter">>,
                     FALSE, "citations_only")
    ELSE IF req.fast_mode /\ ~req.explain
    THEN FastPayload(_fallback_extractive_answer(query, chunks, tone, Max(750, conciseness)),
                     chunks, _query_terms(EffQuery(req.query, <<>>)),
                     _max_citations_from_conciseness(conciseness), _confidence(chunks))
    ELSE GroundedPayload(
             GroundedLlm(IF o.kind \in {"answer", "empty"} THEN LlmAnswer(o, chunks)
                         ELSE _fallback_extractive_answer(query, chunks, tone, conciseness),
                         _fallback_extractive_answer(query, chunks, tone, conciseness),
                         chunks, FracGE(_confidence(chunks), min_confidence), o.supported),
             chunks, _query_terms(EffQuery(req.query, <<>>)),
             _max_citations_from_conciseness(conciseness), _confidence(chunks),
             Max(250, min_confidence - 200))

----------------------------------------------------------------------------
(* The context state machine of one session: absent -> loaded -> updated   *)
(* -> persisted, as answer_query drives it (1450, 1459, 1515, 1536, 1564,  *)
(* 1655).                                                                  *)

MaxAppends == 6

\* Questions and answers of the turns a session may see.
TurnInputs ==
    { [q |-> EmptyStr,              a |-> EmptyStr],
      [q |-> Str("short q", 12),    a |-> Str("short a", 40)],
      [q |-> Str("long q", 300),    a |-> Str("long a", 400)] }

LegacyTurn == [q |-> Str("long q", 300), a |-> Str("long a", 400)]

\* A context written by the list-only format of an earlier release.
LegacyList == [fmt |-> "list", summary |-> EmptyStr,
               turns |-> [i \in 1..CTX_MAX_TURNS |-> LegacyTurn]]

CtxIdle ==
    /\ ctx_redis = Absent
    /\ ctx_state = EmptyContext
    /\ ctx_pc = "absent"
    /\ ctx_n = 0

ConfIdle ==
    /\ conf_chunks = <<>>
    /\ conf_before = <<>>
    /\ conf_pc = "start"

RrIdle ==
    /\ rr_chunks = <<>>
    /\ rr_terms = {}
    /\ rr_limit = 1
    /\ rr_out = <<>>
    /\ rr_pc = "start"

\* The facts table of the store: the group-granted document d_grp states
\* three of the incident facts, the board memo d_sec the fourth.
FactRows ==
    << FactRow("incident.p1", "d_grp", "c_grp", "w1"),
       FactRow("incident.postmortem", "d_grp", "c_grp", "w1"),
       FactRow("incident.72h", "d_grp", "c_grp", "w1"),
       FactRow("incident.gdpr", "d_sec", "c_sec", "w1") >>

NoRequest == [query |-> EffQuery("", <<>>)]

FactIdle ==
    /\ fact_rows = FactRows
    /\ fact_req = NoRequest
    /\ fact_out = NoAnswer
    /\ fact_pc = "start"

AskIdle ==
    /\ ask_pc = "idle"
    /\ ask_req = NoRequest
    /\ ask_chunks = <<>>
    /\ ask_resp = NoAnswer
    /\ ask_calls = <<>>
    /\ ask_at = 0
    /\ ask_n = 0
    /\ ask_hist = <<>>
    /\ answer_redis = {}
    /\ answer_db = {}
    /\ embed_redis = {}
    /\ now = 0

\* the cache keys, the threads and the texts of the small specifications
CacheKeys == {"k1", "k2"}

NoWrite == [payload |-> NoAnswer, expires_at |-> 0, torn |-> FALSE, writes |-> 0]

CacheIdle ==
    /\ cache_op = [op |-> "none"]
    /\ cache_log = [k \in CacheKeys |-> NoWrite]

Threads == {"t1", "t2"}

\* None, where a vector is looked for
NoVec == [src |-> "none"]

NoCall == [pc |-> "idle", text |-> "", out |-> "none", vec |-> NoVec, old |-> "", n |-> 0]

EmbIdle ==
    /\ emb_cache = {}
    /\ emb_order = <<>>
    /\ emb_th = [t \in Threads |-> NoCall]

NoArgs == [workspace_id |-> "", user_id |-> "", persona |-> "", session_id |-> ""]

ResetIdle ==
    /\ rs_store = {}
    /\ rs_op = [op |-> "none", args |-> NoArgs, loaded |-> FALSE, prev |-> "none",
                prev_args |-> NoArgs, n |-> 0]

LaneIdle == ln_op = [pc |-> "idle"]

RaceIdle == rc_th = [pc |-> "idle"]

SessIdle == ss_th = [pc |-> "idle"]

IngestIdle == ig_op = [pc |-> "idle"]

WorkerIdle == wk_op = [pc |-> "idle"]

TailIdle == LaneIdle /\ RaceIdle /\ SessIdle /\ IngestIdle /\ WorkerIdle

CtxInit ==
    /\ ctx_redis \in {Absent, LegacyList}
    /\ ctx_state = EmptyContext
    /\ ctx_pc = "absent"
    /\ ctx_n = 0
    /\ ConfIdle /\ RrIdle /\ FactIdle /\ AskIdle /\ CacheIdle /\ EmbIdle /\ ResetIdle /\ TailIdle

CtxLoad ==
    /\ ctx_pc \in {"absent", "persisted"}
    /\ ctx_n < MaxAppends
    /\ ctx_state' = _load_context(ctx_redis, CTX_MAX_TURNS)
    /\ ctx_pc' = "loaded"
    /\ UNCHANGED <<ctx_redis, ctx_n, exceptCtx>>

CtxAppend ==
    /\ ctx_pc = "loaded"
    /\ \E t \in TurnInputs :
          ctx_state' = _append_context_turn(ctx_state, t.q, t.a)
    /\ ctx_pc' = "updated"
    /\ ctx_n' = ctx_n + 1
    /\ UNCHANGED <<ctx_redis, exceptCtx>>

CtxSave ==
    /\ ctx_pc = "updated"
    /\ ctx_redis' = _save_context(ctx_state)
    /\ ctx_pc' = "persisted"
    /\ UNCHANGED <<ctx_state, ctx_n, exceptCtx>>

CtxNext == CtxLoad \/ CtxAppend \/ CtxSave

SpecCtx == CtxInit /\ [][CtxNext]_vars

----------------------------------------------------------------------------
(* _confidence on a result set and on the set with one chunk of score 0     *)
(* appended                                                                *)

MaxResultLen == 3

RECURSIVE SeqsUpTo(_, _)
\* the sequences over S of length at most n
SeqsUpTo(S, n) ==
    IF n = 0 THEN {<<>>}
    ELSE LET shorter == SeqsUpTo(S, n - 1)
         IN  shorter \cup {Append(q, x) : q \in {r \in shorter : Len(r) = n - 1}, x \in S}

NoText == [id |-> "", tokens |-> {}, phrases |-> {}]

ConfChunk(d, sc) ==
    [chunk_id |-> "c", document_id |-> d, source_id |-> "s", text |-> NoText, score |-> sc]

ConfPool == {ConfChunk(d, sc) : d \in {"d1", "d2"}, sc \in {0, 100, 500, 900, ScoreOne}}

ConfInit ==
    /\ conf_chunks \in (SeqsUpTo(ConfPool, MaxResultLen) \ {<<>>})
    /\ conf_before = <<>>
    /\ conf_pc = "start"
    /\ CtxIdle /\ RrIdle /\ FactIdle /\ AskIdle /\ CacheIdle /\ EmbIdle /\ ResetIdle /\ TailIdle

ConfAppendZero ==
    /\ conf_pc = "start"
    /\ \E d \in {"d1", "d2", "d3"} :
          conf_chunks' = Append(conf_chunks, ConfChunk(d, 0))
    /\ conf_before' = conf_chunks
    /\ conf_pc' = "appended"
    /\ UNCHANGED exceptConf

ConfNext == ConfAppendZero

SpecConf == ConfInit /\ [][ConfNext]_vars

ConfAdded == conf_chunks[Len(conf_chunks)]

\* C6 (as claimed): appending a chunk of score 0, from any document, never
\* makes the confidence larger.
C6_AppendZeroNeverRaises ==
    conf_pc = "appended" => FracLE(_confidence(conf_chunks), _confidence(conf_before))

\* C6 (amended): appending a chunk of score 0 never makes the confidence
\* larger when its document is not already one of the most frequent documents
\* of the set (a document new to the set, for one).
C6_AppendZeroOffTopNeverRaises ==
    (/\ conf_pc = "appended"
     /\ DocCount(conf_before, ConfAdded.document_id) < MaxDocCount(conf_before))
    => FracLE(_confidence(conf_chunks), _confidence(conf_before))

\* Witness of C6: a chunk of a new document was appended and the confidence
\* fell.
C6_Witness ==
    /\ conf_pc = "appended"
    /\ DocCount(conf_before, ConfAdded.document_id) = 0
    /\ Len(conf_before) >= 2
    /\ FracLT(_confidence(conf_chunks), _confidence(conf_before))

----------------------------------------------------------------------------
(* _hybrid_rerank on a chunk list                                          *)

MaxRerankLen == 5

RrText(id, toks) == [id |-> id, tokens |-> toks, phrases |-> {}]

RrChunk(id, d, toks, sc) ==
    [chunk_id |-> id, document_id |-> d, source_id |-> "s", text |-> RrText(id, toks),
     score |-> sc]

\* four chunks of one document and one of another
RrPool ==
    { RrChunk("r1", "d1", {"vpn", "policy"}, 900),
      RrChunk("r2", "d1", {"vpn"}, 700),
      RrChunk("r3", "d1", {"policies"}, 700),
      RrChunk("r4", "d1", {"tls"}, 300),
      RrChunk("r5", "d2", {"vpn", "tls"}, 500) }

RrInit ==
    /\ rr_chunks \in SeqsUpTo(RrPool, MaxRerankLen)
    /\ rr_terms \in {{}, {"vpn"}, {"vpn", "policy"}}
    /\ rr_limit \in {2, 10}
    /\ rr_out = <<>>
    /\ rr_pc = "start"
    /\ CtxIdle /\ ConfIdle /\ FactIdle /\ AskIdle /\ CacheIdle /\ EmbIdle /\ ResetIdle /\ TailIdle

Rerank ==
    /\ rr_pc = "start"
    /\ rr_out' = _hybrid_rerank(rr_chunks, rr_terms, rr_limit)
    /\ rr_pc' = "done"
    /\ UNCHANGED <<rr_chunks, rr_terms, rr_limit, exceptRr>>

RrNext == Rerank

SpecRerank == RrInit /\ [][RrNext]_vars

\* C8: the output of _hybrid_rerank holds at most 3 chunks of any one
\* document, for every chunk list, term set (the empty one too) and limit.
C8_DiversityCap ==
    rr_pc = "done" => \A d \in DocsOf(rr_out) : DocCount(rr_out, d) <= 3

\* The cap does hold whenever there is a query term to rank by.
C8_DiversityCapWithTerms ==
    (rr_pc = "done" /\ rr_terms # {}) => \A d \in DocsOf(rr_out) : DocCount(rr_out, d) <= 3

----------------------------------------------------------------------------
(* _fact_first_answer on a facts table: for a query of each intent, every  *)
(* subset of the query's fact keys is visible to the requester and the     *)
(* facts of the other keys sit on a document that grants someone else      *)

FactQueryIds ==
    { "incident postmortem process", "which cloud regions", "rto", "data retention",
      "zero trust", "request flow", "monitoring", "okta", "api cost" }

\* persona, technical_depth, output_tone, conciseness
FactStyles ==
    { [persona |-> "sales",       technical_depth |-> "low",  output_tone |-> "friendly",
       conciseness |-> 800],
      [persona |-> "exec",        technical_depth |-> "low",  output_tone |-> "direct",
       conciseness |-> 600],
      [persona |-> "engineering", technical_depth |-> "high", output_tone |-> "critical",
       conciseness |-> 200] }

FactRequest(raw, ugk, style) ==
    [user_id |-> "u1", workspace_id |-> "w1", query |-> EffQuery(raw, <<>>),
     use_general_knowledge |-> ugk, persona |-> style.persona,
     technical_depth |-> style.technical_depth, output_tone |-> style.output_tone,
     conciseness |-> style.conciseness]

\* d_usr grants u1, d_gk is a public document of a gkb: source, d_sec
\* grants u3 only
FactTable(keys, visible, doc) ==
    [k \in 1..Len(keys) |->
        IF keys[k] \in visible
        THEN FactRow(keys[k], doc, IF doc = "d_usr" THEN "c_usr" ELSE "c_gk", "w1")
        ELSE FactRow(keys[k], "d_sec", "c_sec", "w1")]

FactInit ==
    /\ \E raw \in FactQueryIds, style \in FactStyles, ugk \in BOOLEAN, doc \in {"d_usr", "d_gk"} :
          LET keys == _fact_keys_for_query(EffQuery(raw, <<>>))
          IN  \E visible \in SUBSET Range(keys) :
                 /\ fact_req = FactRequest(raw, ugk, style)
                 /\ fact_rows = FactTable(keys, visible, doc)
    /\ fact_out = NoAnswer
    /\ fact_pc = "start"
    /\ CtxIdle /\ ConfIdle /\ RrIdle /\ AskIdle /\ CacheIdle /\ EmbIdle /\ ResetIdle /\ TailIdle

FactFirstAnswer ==
    /\ fact_pc = "start"
    /\ fact_out' = _fact_first_answer(fact_req, "u1@corp", fact_req.persona,
                                       fact_req.technical_depth, fact_req.output_tone,
                                       fact_req.conciseness)
    /\ fact_pc' = "done"
    /\ UNCHANGED <<fact_rows, fact_req, exceptFact>>

FactNext == FactFirstAnswer

SpecFact == FactInit /\ [][FactNext]_vars

\* the fact keys with a fact the requester may read
FactVisibleKeys ==
    {fact_rows[k].fact_key : k \in
        {j \in 1..Len(fact_rows) :
            /\ fact_rows[j].workspace_id = fact_req.workspace_id
            /\ \E a \in DocumentAclRows :
                  /\ a.document_id = fact_rows[j].document_id
                  /\ \/ a.principal_type = "public"
                     \/ a.principal_id \in {"u1", "u1@corp", "g1"}
            /\ (fact_req.use_general_knowledge \/ fact_rows[j].document_id # "d_gk")}}

FactIntent == _primary_intent(fact_req.query)

FactRequiredFound == INTENT_REQUIRED_FACT_KEYS[FactIntent] \cap FactVisibleKeys

\* the least n >= 1 with n >= 0.6 * |R|
FactNeed ==
    LET r == Cardinality(INTENT_REQUIRED_FACT_KEYS[FactIntent])
    IN  CHOOSE n \in 1..Max(1, r) : 10 * n >= 6 * r /\ (n = 1 \/ 10 * (n - 1) < 6 * r)

\* C7: the Fact Engine returns an answer only if at least
\* max(1, ceil(0.6 * |R|)) keys of the intent's required set R are among the
\* found ACL-visible fact keys; below that it returns no answer.
C7_FactCoverageGate ==
    fact_pc = "done" =>
        /\ fact_out # NoAnswer => Cardinality(FactRequiredFound) >= FactNeed
        /\ Cardinality(FactRequiredFound) < FactNeed => fact_out = NoAnswer

\* Witness of C7: 2 of 4 required keys and other facts of the intent were
\* found, and the engine declined.
C7_Witness ==
    /\ fact_pc = "done"
    /\ Cardinality(INTENT_REQUIRED_FACT_KEYS[FactIntent]) >= 4
    /\ Cardinality(FactRequiredFound) = FactNeed - 1
    /\ Cardinality(FactRequiredFound) >= 2
    /\ Cardinality(FactVisibleKeys) > Cardinality(FactRequiredFound)
    /\ fact_out = NoAnswer

\* the gate also lets an answer through at the threshold
C7_AcceptedAtThreshold ==
    /\ fact_pc = "done"
    /\ Cardinality(FactRequiredFound) = FactNeed
    /\ Cardinality(FactRequiredFound) < Cardinality(INTENT_REQUIRED_FACT_KEYS[FactIntent])
    /\ fact_out # NoAnswer
    /\ fact_out.mode = "fact"

----------------------------------------------------------------------------
(* answer_query as a state machine: ask_service.py 1437-1656.  One request *)
(* is in flight at a time; the requests that keep a context share one      *)
(* context key, whose value is ctx_redis; ctx_state is context_state.      *)

MaxAsks == 2

MaxTicks == 2

AskRequest(user_id, workspace_id, query, persona, flags, filters) ==
    [user_id |-> user_id, tenant_id |-> "t1", workspace_id |-> workspace_id,
     persona |-> persona, query |-> query, technical_depth |-> "medium",
     conversationalness |-> 500, output_tone |-> "direct", conciseness |-> 600,
     use_general_knowledge |-> "gk" \in flags, fast_mode |-> "fast" \in flags,
     use_context |-> "ctx" \in flags, filters |-> filters, explain |-> "explain" \in flags]

\* The requests that arrive: every query from u1 in w1; some without general
\* knowledge, some with context, explain, fast or a source filter;
\* u2, who is granted nothing; w2 and w3, where u1 and u2 are granted
\* nothing; a user the tenant does not have; another persona.
Requests ==
    {AskRequest("u1", "w1", q, "engineering", {"gk"}, {}) : q \in QueryIds}
    \cup {AskRequest("u1", "w1", q, "engineering", {}, {}) :
             q \in {"vpn policy", "what is tls", "who is ada"}}
    \cup {AskRequest("u1", "w1", q, "engineering", {"gk", "ctx"}, {}) :
             q \in {"12 * (3 + 4)", "what's that times 3", "vpn policy"}}
    \cup {AskRequest("u1", "w1", q, "engineering", f, {}) :
             q \in {"vpn policy", "incident postmortem process"},
             f \in {{"gk", "explain"}, {"gk", "fast"}}}
    \cup {AskRequest("u1", "w1", "vpn policy", "engineering", {"gk"}, {"s_int"}),
          AskRequest("u1", "w1", "what is tls", "engineering", {"gk"}, {"s_gkb"}),
          AskRequest("u1", "w1", "what is tls", "engineering", {"gk", "explain"}, {"s_gkb"}),
          AskRequest("u1", "w1", "vpn policy", "sales", {"gk"}, {}),
          AskRequest("u2", "w1", "vpn policy", "engineering", {"gk"}, {}),
          AskRequest("u2", "w2", "vpn policy", "engineering", {"gk"}, {}),
          AskRequest("u2", "w2", "budget", "engineering", {"gk"}, {}),
          AskRequest("u1", "w3", "vpn policy", "engineering", {"gk"}, {}),
          AskRequest("u9", "w1", "vpn policy", "engineering", {"gk"}, {})}

\* the requests of the specification with failures: among them one that names
\* a workspace of no row and one whose source_ids hold an id that is no UUID
FaultRequests ==
    {AskRequest("u1", "w1", "vpn policy", "engineering", {"gk"}, {}),
     AskRequest("u1", "w1", "vpn policy", "engineering", {"gk", "explain"}, {}),
     AskRequest("u1", "w1", "vpn policy", "engineering", {"gk", "ctx"}, {}),
     AskRequest("u1", "w1", "what is tls", "engineering", {"gk", "explain"}, {"s_gkb"}),
     AskRequest("u1", "w1", "12 * (3 + 4)", "engineering", {"gk"}, {}),
     AskRequest("u1", "w1", "vpn policy", "engineering", {"gk", "fast"}, {}),
     AskRequest("u1", "w1", "vpn policy", "engineering", {"gk", "fast", "explain"}, {}),
     AskRequest("u1", "w9", "vpn policy", "engineering", {"gk", "ctx"}, {}),
     AskRequest("u9", "w1", "vpn policy", "engineering", {"gk", "ctx"}, {}),
     AskRequest("u1", "w1", "vpn policy", "engineering", {"gk"}, {"not-a-uuid"})}

Init ==
    /\ AskIdle /\ CtxIdle /\ ConfIdle /\ RrIdle /\ FactIdle /\ CacheIdle /\ EmbIdle /\ ResetIdle /\ TailIdle

\* effective_query
AskQuery == _rewrite_query_with_context(ask_req.query, ctx_state)

AskEmail == (CHOOSE u \in User(ask_req.user_id, ask_req.tenant_id) : TRUE).email

\* cache_key of the request in flight
AskKey ==
    _answer_cache_key(ask_req.persona, AskQuery,
                      _normalize_depth(ask_req.technical_depth, ask_req.persona),
                      _normalize_tone(ask_req.output_tone),
                      _conciseness_bucket(Max(0, Min(ScoreOne, ask_req.conciseness))),
                      _conversation_bucket(Max(0, Min(ScoreOne, ask_req.conversationalness))),
                      ask_req.fast_mode, _context_hash(ask_chunks))

\* What is remembered of a request that returned: its cache key, its
\* response, when the response was settled, whether it wrote the cache.
AskRecord ==
    [key |-> AskKey, resp |-> ask_resp, at |-> ask_at,
     wrote |-> "cache.set_answer" \in Range(ask_calls),
     ttl |-> get_policy(ask_req.persona).cache_ttl_seconds]

\* A mutant of the context write of answer_query: the turn is not saved.
Mut_SavedContext_skipped(answer) == ctx_redis

\* _save_context(redis, context_key, _append_context_turn(context_state, ...))
SavedContext(answer) ==
    IF ask_req.use_context
    THEN _save_context(_append_context_turn(ctx_state, QueryStr(ask_req.query), answer))
    ELSE ctx_redis

\* A mutant of CacheService.get_answer: the expiry of the durable row is not
\* looked at.
Mut_get_answer_stale(key) ==
    IF \E e \in answer_redis : e.cache_key = key /\ e.expires_at > now
    THEN (CHOOSE e \in answer_redis : e.cache_key = key /\ e.expires_at > now).answer_json
    ELSE IF \E r \in answer_db : r.cache_key = key
    THEN (CHOOSE r \in answer_db : r.cache_key = key).answer_json
    ELSE NoAnswer

\* CacheService.get_answer: the fast tier, then a durable row not yet expired
get_answer(key) ==
    IF \E e \in answer_redis : e.cache_key = key /\ e.expires_at > now
    THEN (CHOOSE e \in answer_redis : e.cache_key = key /\ e.expires_at > now).answer_json
    ELSE IF \E r \in answer_db : r.cache_key = key /\ r.expires_at > now
    THEN (CHOOSE r \in answer_db : r.cache_key = key /\ r.expires_at > now).answer_json
    ELSE NoAnswer

\* A mutant of CacheService.set_answer: the entry is written already expired.
Mut_set_answer_expired(tier, key, payload, ttl_seconds) ==
    {e \in tier : e.cache_key # key}
    \cup {[cache_key |-> key, answer_json |-> payload, expires_at |-> now]}

\* A mutant of CacheService.set_answer: an entry already there is kept.
Mut_set_answer_insert_only(tier, key, payload, ttl_seconds) ==
    IF \E e \in tier : e.cache_key = key
    THEN tier
    ELSE tier \cup {[cache_key |-> key, answer_json |-> payload, expires_at |-> now + ttl_seconds]}

\* CacheService.set_answer on one tier: setex, or the upsert of the row
set_answer(tier, key, payload, ttl_seconds) ==
    {e \in tier : e.cache_key # key}
    \cup {[cache_key |-> key, answer_json |-> payload, expires_at |-> now + ttl_seconds]}

\* What the caller of POST /ask gets when answer_query raises: the router
\* (ask.py 18-23) turns a ValueError into HTTP 404, the framework turns any
\* other exception into HTTP 500.
Raised(exc, status) == [mode |-> "raised", exc |-> exc, status |-> status]

\* UUID(v) at 1351 raises ValueError on an id that is not a UUID
UuidRaises(source_ids) == "not-a-uuid" \in source_ids

\* a storage query of the retrieval answers, or raises
StoreFaults == {"none", "raises"}

\* Lines 1438-1460: the user row, the context, the effective query, the
\* basic state.  A request that returned is remembered as the next begins.
AskBeginFrom(reqs) ==
    /\ ask_pc \in {"idle", "done", "raised"}
    /\ ask_n < MaxAsks
    /\ \E req \in reqs :
          LET context_state == IF req.use_context
                               THEN _load_context(ctx_redis, CTX_MAX_TURNS)
                               ELSE EmptyContext
              basic == _basic_query_answer(req, context_state.turns)
              load  == IF req.use_context THEN <<"_load_context">> ELSE <<>>
          IN  /\ ask_req' = req
              /\ ask_chunks' = <<>>
              /\ ask_at' = now
              /\ IF User(req.user_id, req.tenant_id) = {}
                 THEN /\ ask_pc' = "raised"
                      /\ ask_resp' = Raised("ValueError", 404)
                      /\ ask_calls' = <<>>
                      /\ ctx_state' = EmptyContext
                      /\ ctx_redis' = ctx_redis
                 ELSE IF basic # NoAnswer
                 THEN /\ ask_pc' = "done"
                      /\ ask_resp' = basic
                      /\ ask_calls' = load \o (IF req.use_context THEN <<"_save_context">> ELSE <<>>)
                      /\ ctx_state' = context_state
                      /\ ctx_redis' = IF req.use_context
                                      THEN _save_context(_append_context_turn(
                                               context_state, QueryStr(req.query), basic.answer))
                                      ELSE ctx_redis
                 ELSE /\ ask_pc' = "begun"
                      /\ ask_resp' = NoAnswer
                      /\ ask_calls' = load
                      /\ ctx_state' = context_state
                      /\ ctx_redis' = ctx_redis
    /\ ask_n' = ask_n + 1
    /\ ask_hist' = IF ask_pc = "done" THEN Append(ask_hist, AskRecord) ELSE ask_hist
    /\ UNCHANGED <<answer_redis, answer_db, embed_redis, now, ctx_pc, ctx_n, exceptAsk>>

AskBegin == AskBeginFrom(Requests)

\* Lines 1462-1496: the query vector, memoised in redis for an hour, the
\* retrieval, and the follow-up when nothing comes back.
AskRetrieveUnder(faults) ==
    /\ ask_pc = "begun"
    /\ LET key    == [raw |-> _normalize_query(AskQuery.raw), hint |-> AskQuery.hint]
           hit    == \E e \in embed_redis : e.key = key /\ e.expires_at > now
           policy == get_policy(ask_req.persona)
           top_k  == IF ask_req.fast_mode
                     THEN Max(4, Min(6, policy.retrieval_top_k \div 2))
                     ELSE policy.retrieval_top_k
       IN  /\ embed_redis' = IF hit THEN embed_redis
                             ELSE {e \in embed_redis : e.key # key}
                                  \cup {[key |-> key, expires_at |-> now + 3600]}
           /\ \E fault \in faults :
                 IF UuidRaises(ask_req.filters) \/ fault = "raises"
                 THEN /\ ask_chunks' = <<>>
                      /\ ask_pc' = "raised"
                      /\ ask_resp' = IF UuidRaises(ask_req.filters)
                                      THEN Raised("ValueError", 404)
                                      ELSE Raised("SQLAlchemyError", 500)
                      /\ ask_calls' = ask_calls \o <<"redis.get query_embed">>
                                \o (IF hit THEN <<>> ELSE <<"embed_text", "redis.setex query_embed">>)
                                \o (IF UuidRaises(ask_req.filters) THEN <<"UUID raised">>
                                    ELSE <<"_retrieve_with_lane_fallback", "storage query raised">>)
                 ELSE
                 /\ \E pick \in TermPicks(_query_terms(AskQuery) \cup _intent_lexical_terms(AskQuery)) :
                       LET chunks == _retrieve_with_lane_fallback(
                                         [ask_req EXCEPT !.query = AskQuery], AskEmail, top_k,
                                         policy.min_confidence, pick)
                       IN  /\ ask_chunks' = chunks
                           /\ ask_pc' = IF chunks = <<>> THEN "done" ELSE "retrieved"
                           /\ ask_resp' =
                                 IF chunks = <<>>
                                 THEN AskResponse(
                                          Str("I could not find any accessible sources for this request.", 98),
                                          <<>>, Frac(0, 1),
                                          <<"Specify a source", "Request access to a document">>,
                                          FALSE, "followup")
                                 ELSE ask_resp
                 /\ ask_calls' = ask_calls \o <<"redis.get query_embed">>
                                \o (IF hit THEN <<>> ELSE <<"embed_text", "redis.setex query_embed">>)
                                \o <<"_retrieve_with_lane_fallback">>
    /\ ask_at' = now
    /\ UNCHANGED <<ask_req, ask_n, ask_hist, answer_redis, answer_db, now, ctxVars, exceptAsk>>

\* every storage query of the retrieval answers
AskRetrieve == AskRetrieveUnder({"none"})

\* A mutant of the cache-hit state: the cached payload goes back as stored.
Mut_CachedAnswer_unflagged(cached) == cached

\* AskResponse.model_validate({**cached, 'cache_hit': True})
CachedAnswer(cached) == [cached EXCEPT !.cache_hit = TRUE]

\* Lines 1498-1517: the cache key and the read of the answer cache.
AskCacheLookup ==
    /\ ask_pc = "retrieved"
    /\ LET cached == get_answer(AskKey)
       IN  IF cached # NoAnswer
           THEN /\ ask_resp' = CachedAnswer(cached)
                /\ ask_pc' = "done"
                /\ ctx_redis' = SavedContext(cached.answer)
                /\ ask_calls' = ask_calls \o <<"cache.get_answer">>
                                \o (IF ask_req.use_context THEN <<"_save_context">> ELSE <<>>)
           ELSE /\ ask_pc' = "missed"
                /\ ask_calls' = ask_calls \o <<"cache.get_answer">>
                /\ UNCHANGED <<ask_resp, ctx_redis>>
    /\ ask_at' = now
    /\ UNCHANGED <<ask_req, ask_chunks, ask_n, ask_hist, answer_redis, answer_db, embed_redis,
                   now, ctx_state, ctx_pc, ctx_n, exceptAsk>>

\* Lines 1519-1656: citations only, fast, or the generative state; the
\* payload is written to both cache tiers and the turn to the context.
AskAnswerWith(outcomes, detail) ==
    /\ ask_pc = "missed"
    /\ \E o \in outcomes :
          \E payload \in {AnswerPayload(ask_req, AskQuery, ask_chunks,
                                        _normalize_tone(ask_req.output_tone),
                                        Max(0, Min(ScoreOne, ask_req.conciseness)),
                                        get_policy(ask_req.persona).min_confidence, o)} :
              /\ ask_resp' = payload
              /\ answer_redis' = set_answer(answer_redis, AskKey, payload,
                                            get_policy(ask_req.persona).cache_ttl_seconds)
              /\ answer_db' = set_answer(answer_db, AskKey, payload,
                                         get_policy(ask_req.persona).cache_ttl_seconds)
              /\ ctx_redis' = SavedContext(payload.answer)
              /\ ask_calls' = ask_calls
                     \o (IF payload.mode \in {"grounded", "followup"}
                         THEN (IF detail THEN LlmCall(o)
                               ELSE <<"synthesize_grounded_answer">>)
                         ELSE <<>>)
                     \o <<"cache.set_answer">>
                     \o (IF ask_req.use_context THEN <<"_save_context">> ELSE <<>>)
    /\ ask_pc' = "done"
    /\ ask_at' = now
    /\ UNCHANGED <<ask_req, ask_chunks, ask_n, ask_hist, embed_redis, now, ctx_state, ctx_pc,
                   ctx_n, exceptAsk>>

\* the backend replies with an answer, or the call fails, or the answer is weak
AskAnswer == AskAnswerWith(LlmOutcomes, FALSE)

\* Time passes; redis drops the keys whose time to live has run out.
Tick ==
    /\ now < 150 * MaxTicks
    /\ now' = now + 150
    /\ answer_redis' = {e \in answer_redis : e.expires_at > now + 150}
    /\ embed_redis' = {e \in embed_redis : e.expires_at > now + 150}
    /\ UNCHANGED <<ask_pc, ask_req, ask_chunks, ask_resp, ask_calls, ask_at, ask_n, ask_hist,
                   answer_db, ctxVars, exceptAsk>>

Next == AskBegin \/ AskRetrieve \/ AskCacheLookup \/ AskAnswer \/ Tick

Spec == Init /\ [][Next]_vars

(***************************************************************************)
(* embed_text and its memo: embedding_service.py 12-90.  The callers run   *)
(* in the threads of the server's pool; a thread is switched between two   *)
(* operations on the dict or the deque, never inside one.  A vector is     *)
(* named by where it comes from, the text it stands for and its length;    *)
(* the memo's key, the SHA-256 of the text, is named by the text.          *)
(***************************************************************************)
EMBED_DIM == 256

\* _EMBED_CACHE_MAX is 1024 in the source; the memo of the model is small
_EMBED_CACHE_MAX == 2

\* the calls of one thread
MaxEmbeds == 2

EmbTexts == {"alpha", "beta", "gamma"}

\* what the POST to /api/embeddings comes to: a vector of the model's own
\* length or of EMBED_DIM, no embedding in the reply, a vector of zeros, a
\* timeout, an HTTP error status, a reply that is not JSON or not numbers
BackendOutcomes == {"vector 768", "vector 256", "empty", "zeros", "timeout", "http error", "malformed"}

Degrading == {"empty", "zeros", "timeout", "http error", "malformed"}

\* A mutant of _fallback_hash_embedding: one value per byte of the digest.
Mut_fallback_hash_embedding_short(text) == [src |-> "hash", of |-> text, dim |-> 32, raw |-> 32]

\* _fallback_hash_embedding: EMBED_DIM values read off the SHA-256 of the
\* text, normalised
_fallback_hash_embedding(text) == [src |-> "hash", of |-> text, dim |-> EMBED_DIM, raw |-> EMBED_DIM]

\* _normalize(_fit_dim(raw_vec, EMBED_DIM)) on the backend's vector of length raw
_fit_dim(text, raw, target_dim) == [src |-> "backend", of |-> text, dim |-> target_dim, raw |-> raw]

\* lines 74-86: the vector embed_text goes on with after the POST
EmbedVector(text, outcome) ==
    CASE outcome = "vector 768" -> _fit_dim(text, 768, EMBED_DIM)
      [] outcome = "vector 256" -> _fit_dim(text, EMBED_DIM, EMBED_DIM)
      [] OTHER                  -> _fallback_hash_embedding(text)

\* key in _embed_cache
EmbCached(key) == \E e \in emb_cache : e.key = key

\* _cache_get(key): the value, or None
_cache_get(key) == IF EmbCached(key) THEN (CHOOSE e \in emb_cache : e.key = key).vec ELSE NoVec

\* a step of thread t that touches neither the dict nor the deque
EmbStep(t, call) ==
    /\ emb_th' = [emb_th EXCEPT ![t] = call]
    /\ UNCHANGED <<emb_cache, emb_order>>

\* lines 63-67: the key, the memo, the return on a hit
EmbCall(t) ==
    /\ emb_th[t].pc \in {"idle", "returned", "raised"}
    /\ emb_th[t].n < MaxEmbeds
    /\ \E text \in EmbTexts :
          EmbStep(t, [pc |-> IF EmbCached(text) THEN "returned" ELSE "post",
                      text |-> text, out |-> IF EmbCached(text) THEN "memo" ELSE "none",
                      vec |-> _cache_get(text), old |-> "", n |-> emb_th[t].n + 1])
    /\ UNCHANGED <<ctxVars, confVars, rrVars, factVars, askVars, cacheVars, resetVars, tailVars>>

\* lines 74-87: the POST, the vector or the fallback
EmbPost(t) ==
    /\ emb_th[t].pc = "post"
    /\ \E outcome \in BackendOutcomes :
          EmbStep(t, [emb_th[t] EXCEPT !.pc = "set", !.out = outcome,
                                       !.vec = EmbedVector(emb_th[t].text, outcome)])
    /\ UNCHANGED <<ctxVars, confVars, rrVars, factVars, askVars, cacheVars, resetVars, tailVars>>

\* line 53: if key in _embed_cache
EmbSetCheck(t) ==
    /\ emb_th[t].pc = "set"
    /\ EmbStep(t, [emb_th[t] EXCEPT !.pc = IF EmbCached(emb_th[t].text)
                                          THEN "overwrite" ELSE "insert"])
    /\ UNCHANGED <<ctxVars, confVars, rrVars, factVars, askVars, cacheVars, resetVars, tailVars>>

\* lines 54-55 and 56: _embed_cache[key] = value, then the return or the append
EmbSetStore(t) ==
    /\ emb_th[t].pc \in {"overwrite", "insert"}
    /\ emb_cache' = {e \in emb_cache : e.key # emb_th[t].text}
                    \cup {[key |-> emb_th[t].text, vec |-> emb_th[t].vec]}
    /\ emb_th' = [emb_th EXCEPT ![t].pc = IF @ = "overwrite" THEN "returned" ELSE "append"]
    /\ UNCHANGED <<emb_order, ctxVars, confVars, rrVars, factVars, askVars, cacheVars, resetVars, tailVars>>

\* line 57: _embed_order.append(key)
EmbAppend(t) ==
    /\ emb_th[t].pc = "append"
    /\ emb_order' = Append(emb_order, emb_th[t].text)
    /\ emb_th' = [emb_th EXCEPT ![t].pc = "while"]
    /\ UNCHANGED <<emb_cache, ctxVars, confVars, rrVars, factVars, askVars, cacheVars, resetVars, tailVars>>

\* line 58: while len(_embed_order) > _EMBED_CACHE_MAX; past it, line 90
EmbWhile(t) ==
    /\ emb_th[t].pc = "while"
    /\ EmbStep(t, [emb_th[t] EXCEPT !.pc = IF Len(emb_order) > _EMBED_CACHE_MAX
                                          THEN "popleft" ELSE "returned"])
    /\ UNCHANGED <<ctxVars, confVars, rrVars, factVars, askVars, cacheVars, resetVars, tailVars>>

\* line 59: old = _embed_order.popleft(), an IndexError on an empty deque
EmbPopleft(t) ==
    /\ emb_th[t].pc = "popleft"
    /\ IF emb_order = <<>>
       THEN /\ emb_th' = [emb_th EXCEPT ![t].pc = "raised"]
            /\ emb_order' = emb_order
       ELSE /\ emb_th' = [emb_th EXCEPT ![t].pc = "pop", ![t].old = Head(emb_order)]
            /\ emb_order' = Tail(emb_order)
    /\ UNCHANGED <<emb_cache, ctxVars, confVars, rrVars, factVars, askVars, cacheVars, resetVars, tailVars>>

\* line 60: _embed_cache.pop(old, None)
EmbPop(t) ==
    /\ emb_th[t].pc = "pop"
    /\ emb_cache' = {e \in emb_cache : e.key # emb_th[t].old}
    /\ emb_th' = [emb_th EXCEPT ![t].pc = "while"]
    /\ UNCHANGED <<emb_order, ctxVars, confVars, rrVars, factVars, askVars, cacheVars, resetVars, tailVars>>

EmbInit ==
    /\ EmbIdle
    /\ AskIdle /\ CtxIdle /\ ConfIdle /\ RrIdle /\ FactIdle /\ CacheIdle /\ ResetIdle /\ TailIdle

EmbNext ==
    \E t \in Threads :
        \/ EmbCall(t) \/ EmbPost(t) \/ EmbSetCheck(t) \/ EmbSetStore(t)
        \/ EmbAppend(t) \/ EmbWhile(t) \/ EmbPopleft(t) \/ EmbPop(t)

SpecEmbed == EmbInit /\ [][EmbNext]_vars

(***************************************************************************)
(* The context key on both sides: _context_key (ask_service.py 262-264) as *)
(* answer_query uses it, and reset_context (ask.py 26-40).  A request is   *)
(* what the client sent: the user id in one of the spellings of the same   *)
(* UUID, the persona and the session id as typed.  A context key is the    *)
(* formatted string, kept as its four parts; a default session id is kept  *)
(* as the user and the persona it is formatted from.                       *)
(***************************************************************************)
MaxResetOps == 3

\* session_id absent from the request
NoSession == "(none)"

ResetUsers == {"u1", "U1"}

ResetPersonas == {"sales", "sales "}

ResetSessions == {NoSession, "", "s1", " s1 ", " "}

ResetArgs == [workspace_id : {"w1"}, user_id : ResetUsers, persona : ResetPersonas, session_id : ResetSessions]

\* str.strip() on the strings above
Strip(s) ==
    CASE s = " s1 "   -> "s1"
      [] s = " "      -> ""
      [] s = "sales " -> "sales"
      [] OTHER        -> s

\* str(UUID(v)): the lower-case spelling
UuidStr(v) == IF v = "U1" THEN "u1" ELSE v

\* a session id as given, and the default f'{user_id}:{persona}'
GivenSid(s) == [u |-> "", p |-> "", s |-> s]

DefaultSid(user_id, persona) == [u |-> user_id, p |-> persona, s |-> ""]

\* str.strip() on a session id: a default ends in the persona
StripSid(sid) == [u |-> sid.u, p |-> Strip(sid.p), s |-> Strip(sid.s)]

\* _context_key(req, req.persona): user_id is a UUID of the request model,
\* session_id is None when absent
_context_key(args) ==
    [ws |-> args.workspace_id, user |-> UuidStr(args.user_id), persona |-> args.persona,
     sid |-> StripSid(IF args.session_id \in {NoSession, ""}
                      THEN DefaultSid(UuidStr(args.user_id), args.persona)
                      ELSE GivenSid(args.session_id))]

\* the key of reset_context: the body's strings, stripped first; an absent
\* session_id reads as ''
reset_key(args) ==
    [ws |-> Strip(args.workspace_id), user |-> Strip(args.user_id), persona |-> Strip(args.persona),
     sid |-> IF args.session_id = NoSession \/ Strip(args.session_id) = ""
             THEN DefaultSid(Strip(args.user_id), Strip(args.persona))
             ELSE GivenSid(Strip(args.session_id))]

\* POST /ask with use_context, as far as the context goes: _load_context on
\* the key, and _save_context when the request ends in a state that saves
ResetAsk ==
    /\ rs_op.n < MaxResetOps
    /\ \E args \in ResetArgs, saves \in BOOLEAN :
          /\ rs_op' = [op |-> "ask", args |-> args, loaded |-> _context_key(args) \in rs_store,
                       prev |-> rs_op.op, prev_args |-> rs_op.args, n |-> rs_op.n + 1]
          /\ rs_store' = IF saves THEN rs_store \cup {_context_key(args)} ELSE rs_store
    /\ UNCHANGED <<ctxVars, confVars, rrVars, factVars, askVars, cacheVars, embVars, tailVars>>

\* POST /ask/context/reset: redis.delete(key)
reset_context ==
    /\ rs_op.n < MaxResetOps
    /\ \E args \in ResetArgs :
          /\ rs_op' = [op |-> "reset", args |-> args, loaded |-> FALSE,
                       prev |-> rs_op.op, prev_args |-> rs_op.args, n |-> rs_op.n + 1]
          /\ rs_store' = rs_store \ {reset_key(args)}
    /\ UNCHANGED <<ctxVars, confVars, rrVars, factVars, askVars, cacheVars, embVars, tailVars>>

ResetInit ==
    /\ ResetIdle /\ TailIdle
    /\ AskIdle /\ CtxIdle /\ ConfIdle /\ RrIdle /\ FactIdle /\ CacheIdle /\ EmbIdle

ResetNext == ResetAsk \/ reset_context

SpecReset == ResetInit /\ [][ResetNext]_vars

(***************************************************************************)
(* answer_query with failures: a storage query of the retrieval may raise, *)
(* the reply of the synthesis backend may hold no answer, a request may    *)
(* name a workspace of no row or a source id that is no UUID.  The record  *)
(* of calls keeps how the synthesis call ended.                            *)
(***************************************************************************)
FaultBegin == AskBeginFrom(FaultRequests)

FaultRetrieve == AskRetrieveUnder(StoreFaults)

FaultAnswer == AskAnswerWith(LlmOutcomes \cup {EmptyOutcome}, TRUE)

FaultNext == FaultBegin \/ FaultRetrieve \/ AskCacheLookup \/ FaultAnswer \/ Tick

SpecFault == Init /\ [][FaultNext]_vars

(***************************************************************************)
(* CacheService on its own: cache_service.py 13-56.  The answer cache and  *)
(* the tool cache are the same code over two key prefixes and two tables;  *)
(* the tiers are answer_redis and answer_db, the clock is now.  redis      *)
(* drops an entry at its TTL and may evict one earlier.                    *)
(***************************************************************************)
(* C12, C13 *)
(***************************************************************************)

\* the entries a tier holds for a key
EntriesOf(tier, key) == {e \in tier : e.cache_key = key}

\* C12: get_answer(k) returns the fast-tier entry for k when one is present;
\* on a fast-tier miss it returns the durable row iff the row's expires_at is
\* later than the current time; an expired durable row is never returned, and
\* the read leaves both tiers as they were.
C12_TwoTierRead ==
    cache_op.op = "get" =>
        /\ EntriesOf(cache_op.redis, cache_op.key) # {}
           => \E e \in EntriesOf(cache_op.redis, cache_op.key) : cache_op.out = e.answer_json
        /\ EntriesOf(cache_op.redis, cache_op.key) = {}
           => /\ \A r \in EntriesOf(cache_op.db, cache_op.key) :
                    r.expires_at > cache_op.at => cache_op.out = r.answer_json
              /\ (\A r \in EntriesOf(cache_op.db, cache_op.key) : r.expires_at <= cache_op.at)
                 => cache_op.out = NoAnswer
        /\ answer_redis = cache_op.redis
        /\ answer_db = cache_op.db

\* a read that missed the fast tier and found an expired durable row, which
\* is still there afterwards
C12_Witness ==
    /\ cache_op.op = "get"
    /\ EntriesOf(cache_op.redis, cache_op.key) = {}
    /\ \E r \in EntriesOf(answer_db, cache_op.key) : r.expires_at <= now
    /\ cache_op.out = NoAnswer

\* C13: after set_answer(k, p, ttl) returns, each tier holds for k exactly
\* the payload p with expiry now + ttl, whatever it held before; and a read
\* of k before the expiry of the most recent write to k that returned, with
\* no failed write since, returns the payload of that write, whatever was
\* evicted from the fast tier in between.
C13_TwoTierWrite ==
    /\ cache_op.op = "set" =>
          /\ EntriesOf(answer_redis, cache_op.key)
                = {[cache_key |-> cache_op.key, answer_json |-> cache_op.payload,
                    expires_at |-> cache_op.at + cache_op.ttl]}
          /\ EntriesOf(answer_db, cache_op.key)
                = {[cache_key |-> cache_op.key, answer_json |-> cache_op.payload,
                    expires_at |-> cache_op.at + cache_op.ttl]}
    /\ (/\ cache_op.op = "get"
        /\ cache_log[cache_op.key].writes > 0
        /\ ~cache_log[cache_op.key].torn
        /\ cache_op.at < cache_log[cache_op.key].expires_at)
       => cache_op.out = cache_log[cache_op.key].payload

\* a second write to a key, then an eviction of its fast-tier entry, then a
\* read that returns the payload of the second write from the durable tier
C13_Witness ==
    /\ cache_op.op = "get"
    /\ cache_log[cache_op.key].writes = 2
    /\ ~cache_log[cache_op.key].torn
    /\ EntriesOf(cache_op.redis, cache_op.key) = {}
    /\ cache_op.at < cache_log[cache_op.key].expires_at
    /\ cache_op.out = cache_log[cache_op.key].payload

(***************************************************************************)
(* C14, C15, C17, C18 *)
(***************************************************************************)

\* C14: when a storage query issued during retrieval raises, the lane counts
\* as empty and the exception does not reach the caller of answer_query: the
\* request goes on down the fallback chain.
C14_StoreFailureAbsorbed ==
    "storage query raised" \in Range(ask_calls) => ask_pc # "raised"

\* the synthesis call of the request in flight failed, or its answer was
\* judged weak, or its reply held no answer
AskSynthesisDegraded ==
    \/ "raised" \in Range(ask_calls)
    \/ "_is_weak_llm_answer" \in Range(ask_calls)
    \/ "no answer in reply" \in Range(ask_calls)

\* the response of the generative state when the extractive fallback stands
\* in for the answer of the synthesis call
AskFallbackPayloads ==
    {AnswerPayload(ask_req, AskQuery, ask_chunks, _normalize_tone(ask_req.output_tone),
                   Max(0, Min(ScoreOne, ask_req.conciseness)),
                   get_policy(ask_req.persona).min_confidence,
                   [kind |-> "error", text |-> "llm answer a", cited |-> FALSE,
                    insufficient_evidence |-> FALSE, supported |-> s]) : s \in BOOLEAN}

\* C15: in the generative state, when the synthesis call times out, raises,
\* returns malformed output or returns an answer judged weak, answer_query
\* returns a response, and the response is built on the extractive fallback.
C15_SynthesisDegrades ==
    (ask_pc \in {"done", "raised"} /\ AskSynthesisDegraded)
    => (ask_pc = "done" /\ ask_resp \in AskFallbackPayloads)

\* C17: when the requester or the workspace of the request does not exist,
\* the ask is rejected as not found and nothing else has happened: no
\* embedding call, no retrieval, no read or write of the context or of the
\* answer cache.
C17_RejectedUntouched ==
    (/\ ask_pc # "idle"
     /\ \/ User(ask_req.user_id, ask_req.tenant_id) = {}
        \/ ask_req.workspace_id \notin WorkspaceRows)
    => (ask_pc = "raised" /\ ask_resp = Raised("ValueError", 404) /\ ask_calls = <<>>)

\* C18: a request of a valid requester never ends in an error, whatever its
\* parameters, explicit source_ids among them: an unknown requester is the
\* only cause of one.  The requests whose storage query raised are C14's and
\* are left aside here.
C18_TotalAfterIdentity ==
    (ask_pc = "raised" /\ "storage query raised" \notin Range(ask_calls))
    => User(ask_req.user_id, ask_req.tenant_id) = {}

(***************************************************************************)
(* C16, C20 *)
(***************************************************************************)

\* the calls of embed_text that have ended after a degrading reply
EmbDegraded == {t \in Threads : emb_th[t].pc \in {"returned", "raised"} /\ emb_th[t].out \in Degrading}

\* C16: embed_text does not raise on a backend failure; on a timeout, an HTTP
\* error, a malformed reply, a missing or an all-zero vector it returns the
\* vector derived from the hash of the text, of length 256, and two calls on
\* one text that both degrade return the same vector.
C16_EmbeddingDegrades ==
    /\ \A t \in Threads : emb_th[t].out \in Degrading => emb_th[t].pc # "raised"
    /\ \A t \in EmbDegraded :
          emb_th[t].vec = [src |-> "hash", of |-> emb_th[t].text, dim |-> 256, raw |-> 256]
    /\ \A t, u \in EmbDegraded : emb_th[t].text = emb_th[u].text => emb_th[t].vec = emb_th[u].vec

\* two calls on one text have both degraded and returned, one after a timeout
C16_Witness ==
    /\ EmbDegraded = Threads
    /\ \A t, u \in Threads : emb_th[t].text = emb_th[u].text
    /\ \E t, u \in Threads : t # u /\ emb_th[t].out = "timeout" /\ emb_th[u].out = "zeros"
    /\ \A t \in Threads : emb_th[t].pc = "returned" /\ emb_th[t].vec.src = "hash"

\* the times a key stands in the eviction queue
EmbQueued(key) == Cardinality({i \in 1..Len(emb_order) : emb_order[i] = key})

\* C20: whatever the interleaving of concurrent embed_text calls, between the
\* calls the memo holds at most its capacity of entries, each cached key is
\* in the eviction queue exactly once and every queued key is cached.
C20_MemoConsistent ==
    (\A t \in Threads : emb_th[t].pc \in {"idle", "returned", "raised"})
    => /\ Cardinality(emb_cache) <= _EMBED_CACHE_MAX
       /\ \A e \in emb_cache : EmbQueued(e.key) = 1
       /\ \A i \in 1..Len(emb_order) : EmbCached(emb_order[i])

(***************************************************************************)
(* C19 *)
(***************************************************************************)

\* C19: after reset_context for a workspace, user, persona and session has
\* returned, the next ask with the same workspace, user, persona and session
\* id, the absent one that stands for the default among them, finds no
\* context: it loads an empty summary and no turns.
C19_ResetThenEmpty ==
    (rs_op.op = "ask" /\ rs_op.prev = "reset" /\ rs_op.prev_args = rs_op.args)
    => ~rs_op.loaded

(***************************************************************************)
(* C22 *)
(***************************************************************************)

\* C22: a cache hit returns an answer that was produced for the same values
\* of the inputs that shape it, the explain flag and the fast-mode flag
\* among them: the answer of the citations-only state, which only a request
\* without explain and without fast mode produces, is never the cached answer
\* of a request with explain, and the answer of the fast state is never the
\* cached answer of a request with explain or without fast mode.
C22_FingerprintComplete ==
    (ask_pc = "done" /\ ask_resp.cache_hit)
    => /\ ask_resp.mode = "citations_only" => (~ask_req.explain /\ ~ask_req.fast_mode)
       /\ ask_resp.mode = "fast" => (ask_req.fast_mode /\ ~ask_req.explain)

(***************************************************************************)
MaxCacheTicks == 3

CachePayloads == {[mode |-> "grounded", answer |-> "p1"], [mode |-> "grounded", answer |-> "p2"]}

CacheTtls == {150, 300}

\* set_answer(key, payload, ttl_seconds) returns: setex, upsert, commit
CacheSet ==
    /\ \E k \in CacheKeys, p \in CachePayloads, ttl \in CacheTtls :
          /\ answer_redis' = set_answer(answer_redis, k, p, ttl)
          /\ answer_db' = set_answer(answer_db, k, p, ttl)
          /\ cache_op' = [op |-> "set", key |-> k, payload |-> p, ttl |-> ttl, at |-> now]
          /\ cache_log' = [cache_log EXCEPT ![k] =
                              [payload |-> p, expires_at |-> now + ttl, torn |-> FALSE,
                               writes |-> Min(2, @.writes + 1)]]
    /\ UNCHANGED <<ask_pc, ask_req, ask_chunks, ask_resp, ask_calls, ask_at, ask_n, ask_hist,
                   embed_redis, now, ctxVars, confVars, rrVars, factVars, embVars, resetVars, tailVars>>

\* set_answer(key, payload, ttl_seconds) raises at the select or the commit:
\* setex has run, the row is as it was
CacheSetTorn ==
    /\ \E k \in CacheKeys, p \in CachePayloads, ttl \in CacheTtls :
          /\ answer_redis' = set_answer(answer_redis, k, p, ttl)
          /\ cache_op' = [op |-> "torn", key |-> k, payload |-> p, ttl |-> ttl, at |-> now]
          /\ cache_log' = [cache_log EXCEPT ![k].torn = TRUE]
    /\ UNCHANGED <<ask_pc, ask_req, ask_chunks, ask_resp, ask_calls, ask_at, ask_n, ask_hist,
                   answer_db, embed_redis, now, ctxVars, confVars, rrVars, factVars, embVars,
                   resetVars, tailVars>>

\* get_answer(key) returns; the tiers it read are kept beside its result
CacheGet ==
    /\ \E k \in CacheKeys :
          cache_op' = [op |-> "get", key |-> k, out |-> get_answer(k),
                       redis |-> answer_redis, db |-> answer_db, at |-> now]
    /\ UNCHANGED <<cache_log, askVars, ctxVars, confVars, rrVars, factVars, embVars, resetVars, tailVars>>

\* redis evicts the entry of a key before its TTL
CacheEvict ==
    /\ \E k \in CacheKeys :
          /\ \E e \in answer_redis : e.cache_key = k
          /\ answer_redis' = {e \in answer_redis : e.cache_key # k}
          /\ cache_op' = [op |-> "evict", key |-> k]
    /\ UNCHANGED <<cache_log, ask_pc, ask_req, ask_chunks, ask_resp, ask_calls, ask_at, ask_n,
                   ask_hist, answer_db, embed_redis, now, ctxVars, confVars, rrVars, factVars,
                   embVars, resetVars, tailVars>>

\* time passes; redis drops the entries whose TTL has run out
CacheTick ==
    /\ now < 150 * MaxCacheTicks
    /\ now' = now + 150
    /\ answer_redis' = {e \in answer_redis : e.expires_at > now + 150}
    /\ cache_op' = [op |-> "tick"]
    /\ UNCHANGED <<cache_log, ask_pc, ask_req, ask_chunks, ask_resp, ask_calls, ask_at, ask_n,
                   ask_hist, answer_db, embed_redis, ctxVars, confVars, rrVars, factVars,
                   embVars, resetVars, tailVars>>

CacheInit ==
    /\ CacheIdle
    /\ AskIdle /\ CtxIdle /\ ConfIdle /\ RrIdle /\ FactIdle /\ EmbIdle /\ ResetIdle /\ TailIdle

CacheNext == CacheSet \/ CacheSetTorn \/ CacheGet \/ CacheEvict \/ CacheTick

SpecCache == CacheInit /\ [][CacheNext]_vars

----------------------------------------------------------------------------
(* C1, C2, C3, C9, C10 *)

\* the acl_exists predicate for the requester of the request in flight
AskGranted(document_id) == AclExists(document_id, ask_req.user_id, AskEmail)

\* C1: every chunk of the evidence _retrieve_with_lane_fallback returns
\* belongs to a document with a grant that matches the requester.
C1_EvidenceGranted ==
    ask_pc \in {"retrieved", "missed", "done"} =>
        \A i \in 1..Len(ask_chunks) : AskGranted(ask_chunks[i].document_id)

\* the workspace of the request has an active source with a document that
\* grants the requester
AskAccessibleSource ==
    \E k \in 1..Len(SourceRows) :
        /\ SourceRows[k].workspace_id = ask_req.workspace_id
        /\ SourceRows[k].status = "active"
        /\ \E d \in DocumentRows : d.source_id = SourceRows[k].id /\ AskGranted(d.id)

\* C2: a request whose workspace has no source accessible to the requester,
\* and whose query is not answered by the basic state, returns mode
\* 'followup' with confidence 0.0 and no citations, and writes nothing to the
\* answer cache.
C2_NoResultPath ==
    (/\ ask_pc = "done"
     /\ ask_resp.mode # "basic"
     /\ ~AskAccessibleSource)
    => /\ ask_resp.mode = "followup"
       /\ ask_resp.confidence = Frac(0, 1)
       /\ ask_resp.citations = <<>>
       /\ "cache.set_answer" \notin Range(ask_calls)

\* C2 where the code does take the no-result path: u2 asks in w2, where no
\* document grants u2 and no chunk holds a term of the query.
C2_NoResultReached ==
    /\ ask_pc = "done"
    /\ ask_req.user_id = "u2"
    /\ ask_req.workspace_id = "w2"
    /\ ~AskAccessibleSource
    /\ ask_chunks = <<>>
    /\ ask_resp.mode = "followup"
    /\ ask_resp.confidence = Frac(0, 1)
    /\ "cache.set_answer" \notin Range(ask_calls)

\* C3 (as claimed): a request with the persona, style, normalised query and
\* evidence of an earlier request, settled within the cache TTL of it,
\* returns the earlier answer and citations with cache_hit = true.
C3_SecondCallHits ==
    ask_pc = "done" =>
        \A k \in 1..Len(ask_hist) :
            (ask_hist[k].key = AskKey /\ ask_at < ask_hist[k].at + ask_hist[k].ttl)
            => /\ ask_resp.cache_hit
               /\ ask_resp.answer = ask_hist[k].resp.answer
               /\ ask_resp.citations = ask_hist[k].resp.citations

\* C3 (amended): a request that has no basic answer and non-empty evidence,
\* and whose cache key is the one an earlier request wrote its answer under,
\* returns that answer and its citations with cache_hit = true when it reads
\* the cache within the TTL of the write.
C3_SecondCallHitsAfterWrite ==
    (ask_pc = "done" /\ ask_resp.mode # "basic" /\ ask_chunks # <<>>) =>
        \A k \in 1..Len(ask_hist) :
            (/\ ask_hist[k].wrote
             /\ ask_hist[k].key = AskKey
             /\ ask_at < ask_hist[k].at + ask_hist[k].ttl)
            => /\ ask_resp.cache_hit
               /\ ask_resp.answer = ask_hist[k].resp.answer
               /\ ask_resp.citations = ask_hist[k].resp.citations

\* Witness of C3: the second request spells the query of the first another
\* way and is served the cached answer of the language model.
C3_Witness ==
    /\ ask_pc = "done"
    /\ ask_resp.mode = "grounded"
    /\ ask_resp.cache_hit
    /\ ask_req.query = "VPN  Policy"
    /\ Len(ask_hist) = 1
    /\ ask_hist[1].wrote
    /\ ask_hist[1].key = AskKey
    /\ ask_hist[1].resp.answer = ask_resp.answer
    /\ ask_at < ask_hist[1].at + ask_hist[1].ttl

\* the raw query resolves deterministically: a derivative pattern, an
\* arithmetic expression, or an arithmetic continuation of a numeric answer
\* in the context
AskResolves ==
    \/ ask_req.query \in {"derivative of x^2", "12 * (3 + 4)"}
    \/ /\ ask_req.query = "what's that times 3"
       /\ ask_req.use_context
       /\ \E i \in 1..Len(ctx_state.turns) : ctx_state.turns[i].a.num # NotNumeric

\* C9: a request whose raw query resolves deterministically returns mode
\* 'basic' with confidence 1.0, no citations and cache_hit false, and no
\* embedding call, retrieval query or answer-cache read is made for it.
C9_BasicFirst ==
    (ask_pc \in {"begun", "retrieved", "missed", "done"} /\ AskResolves) =>
        /\ ask_pc = "done"
        /\ ask_resp.mode = "basic"
        /\ ask_resp.confidence = Frac(1, 1)
        /\ ask_resp.citations = <<>>
        /\ ~ask_resp.cache_hit
        /\ Range(ask_calls) \cap {"embed_text", "redis.get query_embed",
                                  "_retrieve_with_lane_fallback", "cache.get_answer",
                                  "cache.set_answer"} = {}

\* Witness of C9: an arithmetic continuation resolved from the context.
C9_Witness ==
    /\ ask_pc = "done"
    /\ ask_req.query = "what's that times 3"
    /\ AskResolves
    /\ ask_resp.mode = "basic"
    /\ ask_resp.answer.num = 252
    /\ ask_calls = <<"_load_context", "_save_context">>

\* C10: a request not in explain mode, with no basic answer, non-empty
\* evidence and a cache miss, for which the Fact Engine has an accepted
\* answer, returns that answer with mode 'fact'.
C10_FactState ==
    (/\ ask_pc = "done"
     /\ ~ask_req.explain
     /\ ask_resp.mode # "basic"
     /\ ask_chunks # <<>>
     /\ ~ask_resp.cache_hit
     /\ _fact_first_answer([ask_req EXCEPT !.query = EffQuery(ask_req.query, <<>>)], AskEmail,
                           ask_req.persona,
                           _normalize_depth(ask_req.technical_depth, ask_req.persona),
                           _normalize_tone(ask_req.output_tone),
                           Max(0, Min(ScoreOne, ask_req.conciseness))) # NoAnswer)
    => ask_resp.mode = "fact"

----------------------------------------------------------------------------
(* C11 *)

\* the request in flight returned from the no-result branch (1488-1496)
AskNoResult == ask_chunks = <<>> /\ ask_resp.mode = "followup"

\* both tiers of the answer cache hold the response of the request in
\* flight under its cache key, the fast tier until its time to live runs out
AskWritten ==
    /\ "cache.set_answer" \in Range(ask_calls)
    /\ \E r \in answer_db :
          /\ r.cache_key = AskKey
          /\ r.answer_json = ask_resp
          /\ r.expires_at = ask_at + get_policy(ask_req.persona).cache_ttl_seconds
    /\ now < ask_at + get_policy(ask_req.persona).cache_ttl_seconds
       => \E e \in answer_redis : e.cache_key = AskKey /\ e.answer_json = ask_resp

\* the last turn of the stored Context State is the raw query and the answer
\* of the request in flight
AskTurnAppended ==
    /\ ctx_redis.fmt = "dict"
    /\ ctx_redis.turns # <<>>
    /\ ctx_redis.turns[Len(ctx_redis.turns)]
          = [q |-> _compact_text(QueryStr(ask_req.query), 240),
             a |-> _compact_text(ask_resp.answer, 320)]

\* C11 (as claimed): a request that returns in a state other than cache hit
\* and no-result has written its response to the answer cache and, with
\* use_context, has appended its turn to the Context State.
C11_WriteThrough ==
    (ask_pc = "done" /\ ~ask_resp.cache_hit /\ ~AskNoResult) =>
        /\ AskWritten
        /\ ask_req.use_context => AskTurnAppended

\* C11 (amended): a request that returns in the citations-only, fast or
\* generative state (grounded, or follow-up for insufficient evidence) has
\* written its response to both tiers of the answer cache; such a request and
\* a request that returns in the basic state have, with use_context, appended
\* their turn to the Context State; the basic state writes no cache entry.
C11_WriteThroughAfterMiss ==
    (ask_pc = "done" /\ ~ask_resp.cache_hit /\ ~AskNoResult) =>
        /\ ask_resp.mode \in {"basic", "citations_only", "fast", "grounded", "followup"}
        /\ ask_resp.mode # "basic" => AskWritten
        /\ ask_resp.mode = "basic" => "cache.set_answer" \notin Range(ask_calls)
        /\ ask_req.use_context => AskTurnAppended

\* Witness of C11: a request with use_context returned a grounded answer after
\* a cache miss, with the entry written and the turn appended.
C11_Witness ==
    /\ ask_pc = "done"
    /\ ask_resp.mode = "grounded"
    /\ ~ask_resp.cache_hit
    /\ ask_req.use_context
    /\ AskWritten
    /\ AskTurnAppended

----------------------------------------------------------------------------
(* C4, C5 *)

C5_SummaryBounded ==
    /\ ctx_state.summary.len <= CTX_SUMMARY_MAX_CHARS
    /\ ctx_redis.fmt = "dict" => ctx_redis.summary.len <= CTX_SUMMARY_MAX_CHARS

\* Witness of C5: a stored summary that was cut to the limit, folded twice.
C5_Witness ==
    /\ ctx_pc = "persisted"
    /\ ctx_redis.fmt = "dict"
    /\ ctx_redis.summary.len = CTX_SUMMARY_MAX_CHARS
    /\ ctx_n >= 6

(***************************************************************************)
(* C23 *)
(***************************************************************************)

\* C23: when a valid cached answer exists for the key of the request, the
\* step that reads the cache ends the request with that answer, unchanged
\* but for cache_hit = true; neither the synthesis backend nor set_answer is
\* called, both tiers stay as they were (no TTL is extended), and with
\* use_context the turn of the raw query and the cached answer is appended
\* to the context.
C23_CacheHitState ==
    [][(ask_pc = "retrieved" /\ ask_pc' # "retrieved" /\ get_answer(AskKey) # NoAnswer)
       => /\ ask_pc' = "done"
          /\ ask_resp'.cache_hit
          /\ \E e \in answer_redis \cup answer_db :
                /\ e.cache_key = AskKey /\ e.expires_at > now
                /\ ask_resp' = [answer |-> e.answer_json.answer,
                                citations |-> e.answer_json.citations,
                                confidence |-> e.answer_json.confidence,
                                suggested_followups |-> e.answer_json.suggested_followups,
                                cache_hit |-> TRUE, mode |-> e.answer_json.mode]
          /\ answer_redis' = answer_redis /\ answer_db' = answer_db
          /\ "cache.set_answer" \notin Range(ask_calls')
          /\ "synthesize_grounded_answer" \notin Range(ask_calls')
          /\ ask_req.use_context => AskTurnAppended']_vars

\* a request with use_context has ended on a cache hit, with the turn saved
C23_Witness ==
    /\ ask_pc = "done" /\ ask_resp.cache_hit /\ ask_req.use_context
    /\ "cache.set_answer" \notin Range(ask_calls)
    /\ AskTurnAppended

(***************************************************************************)
(* C24 *)
(***************************************************************************)

\* the request in flight has fast_mode set and was answered past the cache:
\* no basic answer, evidence found, no cached answer
AskFastConstructed ==
    /\ ask_pc = "done" /\ ask_req.fast_mode
    /\ ask_chunks # <<>> /\ ~ask_resp.cache_hit /\ ask_resp.mode # "basic"

\* the answer of the extractive fallback as the fast state calls it (1540-1547)
AskFastFallback ==
    _fallback_extractive_answer(AskQuery, ask_chunks, _normalize_tone(ask_req.output_tone),
                                Max(750, Max(0, Min(ScoreOne, ask_req.conciseness))))

\* C24 (as claimed): every request with fast_mode set that reaches answer
\* construction is answered by the extractive fallback with mode 'fast' and
\* without a call of the synthesis backend, whatever its explain flag.
C24_FastState ==
    AskFastConstructed
    => /\ ask_resp.mode = "fast"
       /\ ask_resp.answer = AskFastFallback.answer
       /\ "synthesize_grounded_answer" \notin Range(ask_calls)

\* C24 (amended): a request with fast_mode set and explain not set that
\* reaches answer construction is answered by the extractive fallback with
\* mode 'fast' and without a call of the synthesis backend; with fast_mode
\* and explain both set the synthesis backend is called and the mode is
\* 'grounded' or 'followup'.
C24_FastStateUnlessExplain ==
    AskFastConstructed
    => IF ~ask_req.explain
       THEN /\ ask_resp.mode = "fast"
            /\ ask_resp.answer = AskFastFallback.answer
            /\ "synthesize_grounded_answer" \notin Range(ask_calls)
       ELSE /\ ask_resp.mode \in {"grounded", "followup"}
            /\ "synthesize_grounded_answer" \in Range(ask_calls)

\* a fast-mode request without explain has been answered in the fast state
C24_Witness ==
    /\ AskFastConstructed /\ ~ask_req.explain
    /\ ask_resp.mode = "fast"
    /\ ask_resp.answer = AskFastFallback.answer

----------------------------------------------------------------------------
(* The lanes of retrieval on their own: ask_service.py 1342-1434.  One     *)
(* step is one call of _retrieve_with_lane_fallback on the store, for a    *)
(* request without source filters; beside the result, the step records     *)
(* what the internal lane had found when the decision at 1405 was taken.   *)

LaneUsers == {"u1", "u2"}

LanePersonas == {"engineering", "sales", "exec"}

LaneRequests ==
    {AskRequest(u, w, q, p, f, {}) :
        u \in LaneUsers, w \in WorkspaceRows, q \in QueryIds, p \in LanePersonas,
        f \in {{"gk"}, {}, {"gk", "fast"}}}

LaneEmail(req) == (CHOOSE u \in User(req.user_id, req.tenant_id) : TRUE).email

LaneTopK(req) ==
    IF req.fast_mode THEN Max(4, Min(6, get_policy(req.persona).retrieval_top_k \div 2))
    ELSE get_policy(req.persona).retrieval_top_k

\* the request as answer_query hands it on: the query is the effective query
LaneReq(req) == [req EXCEPT !.query = EffQuery(req.query, <<>>)]

LaneGeneralIds(req) ==
    IF req.use_general_knowledge THEN _workspace_lanes(req.workspace_id).general ELSE {}

LaneRun ==
    /\ ln_op.pc = "idle"
    /\ \E req \in LaneRequests :
      \E pick \in TermPicks(_query_terms(LaneReq(req).query)
                            \cup _intent_lexical_terms(LaneReq(req).query)) :
        \E internal_chunks \in {InternalChunks(LaneReq(req), LaneEmail(req), LaneTopK(req),
                                   _query_terms(LaneReq(req).query)
                                   \cup _intent_lexical_terms(LaneReq(req).query),
                                   _workspace_lanes(req.workspace_id).internal, pick)} :
          /\ ln_op' = [pc |-> "done", req |-> LaneReq(req),
                       internal_chunks |-> internal_chunks,
                       internal_conf |-> _confidence(internal_chunks),
                       internal_overlap |-> _max_overlap(internal_chunks,
                                                         _query_terms(LaneReq(req).query)),
                       out |-> _retrieve_with_lane_fallback(
                                   LaneReq(req), LaneEmail(req), LaneTopK(req),
                                   get_policy(req.persona).min_confidence, pick)]
          /\ UNCHANGED <<ctxVars, confVars, rrVars, factVars, askVars, cacheVars, embVars,
                         resetVars, rc_th, ss_th, ig_op, wk_op>>

LaneInit ==
    /\ AskIdle /\ CtxIdle /\ ConfIdle /\ RrIdle /\ FactIdle /\ CacheIdle /\ EmbIdle
    /\ ResetIdle /\ TailIdle

LaneNext == LaneRun

SpecLane == LaneInit /\ [][LaneNext]_vars

----------------------------------------------------------------------------
(* C25 *)

\* the chunks of a result that come from a general-knowledge source
GeneralOf(chunks, general_ids) == SelectSeq(chunks, LAMBDA c : c.source_id \in general_ids)

\* a call the lane-fallback condition is about: a query that is not general,
\* in a workspace with general-knowledge sources enabled
LaneCase ==
    /\ ln_op.pc = "done"
    /\ ~_is_general_query(ln_op.req.query)
    /\ LaneGeneralIds(ln_op.req) # {}

LaneWeak ==
    /\ ~FracGE(ln_op.internal_conf, get_policy(ln_op.req.persona).min_confidence)
    /\ ln_op.internal_overlap = 0

\* C25: for a query that is not general, with general-knowledge sources
\* enabled, general-lane chunks are in the result only when the confidence of
\* the internal lane is below the persona's minimum and its term overlap is
\* zero; in every other case the result is the internal lane's chunks; and
\* in a blend the internal chunks come first.
C25_LaneFallback ==
    LaneCase =>
        /\ GeneralOf(ln_op.out, LaneGeneralIds(ln_op.req)) # <<>> => LaneWeak
        /\ ~LaneWeak => ln_op.out = ln_op.internal_chunks
        /\ \A i, j \in 1..Len(ln_op.out) :
              (/\ ln_op.out[i].source_id \in LaneGeneralIds(ln_op.req)
               /\ ln_op.out[j].source_id \notin LaneGeneralIds(ln_op.req)) => j < i

----------------------------------------------------------------------------
(* Two requests in CacheService.set_answer for one key: cache_service.py   *)
(* 27-36, models.py 263-268.  Each request has its own database session;   *)
(* a step is one statement.  The row a session adds is inserted when the   *)
(* session commits, and cache_key is unique: the insert of a key that has  *)
(* a row by then raises IntegrityError.                                    *)

RaceKey == "k1"

NoSet == [pc |-> "idle", payload |-> NoAnswer, ttl_seconds |-> 0, existing |-> FALSE]

\* the durable row of an earlier answer, when there is one
OldRow == [cache_key |-> RaceKey, answer_json |-> [mode |-> "grounded", answer |-> "p0"],
           expires_at |-> 0]

\* line 28: self.redis.setex(...)
RaceSetex(t) ==
    /\ rc_th[t].pc = "idle"
    /\ \E p \in CachePayloads, ttl \in CacheTtls :
          /\ answer_redis' = set_answer(answer_redis, RaceKey, p, ttl)
          /\ rc_th' = [rc_th EXCEPT ![t] = [pc |-> "select", payload |-> p,
                                           ttl_seconds |-> ttl, existing |-> FALSE]]
    /\ UNCHANGED <<ask_pc, ask_req, ask_chunks, ask_resp, ask_calls, ask_at, ask_n, ask_hist,
                   answer_db, embed_redis, now, ctxVars, confVars, rrVars, factVars,
                   cacheVars, embVars, resetVars, ln_op, ss_th, ig_op, wk_op>>

\* line 30: existing = self.db.scalar(select(AnswerCache).where(...))
RaceSelect(t) ==
    /\ rc_th[t].pc = "select"
    /\ rc_th' = [rc_th EXCEPT ![t].pc = "commit",
                              ![t].existing = \E r \in answer_db : r.cache_key = RaceKey]
    /\ UNCHANGED <<askVars, ctxVars, confVars, rrVars, factVars, cacheVars, embVars,
                   resetVars, ln_op, ss_th, ig_op, wk_op>>

\* lines 31-36: the update of the row found, or db.add of a new row, and
\* db.commit()
RaceCommit(t) ==
    /\ rc_th[t].pc = "commit"
    /\ IF ~rc_th[t].existing /\ \E r \in answer_db : r.cache_key = RaceKey
       THEN /\ rc_th' = [rc_th EXCEPT ![t].pc = "raised"]
            /\ UNCHANGED answer_db
       ELSE /\ rc_th' = [rc_th EXCEPT ![t].pc = "returned"]
            /\ answer_db' = set_answer(answer_db, RaceKey, rc_th[t].payload,
                                       rc_th[t].ttl_seconds)
    /\ UNCHANGED <<ask_pc, ask_req, ask_chunks, ask_resp, ask_calls, ask_at, ask_n, ask_hist,
                   answer_redis, embed_redis, now, ctxVars, confVars, rrVars, factVars,
                   cacheVars, embVars, resetVars, ln_op, ss_th, ig_op, wk_op>>

RaceInit ==
    /\ ask_pc = "idle" /\ ask_req = NoRequest /\ ask_chunks = <<>> /\ ask_resp = NoAnswer
    /\ ask_calls = <<>> /\ ask_at = 0 /\ ask_n = 0 /\ ask_hist = <<>>
    /\ answer_redis = {}
    /\ answer_db \in {{}, {OldRow}}
    /\ embed_redis = {}
    /\ now = 0
    /\ CtxIdle /\ ConfIdle /\ RrIdle /\ FactIdle /\ CacheIdle /\ EmbIdle /\ ResetIdle
    /\ rc_th = [t \in Threads |-> NoSet]
    /\ LaneIdle /\ SessIdle /\ IngestIdle /\ WorkerIdle

RaceNext == \E t \in Threads : RaceSetex(t) \/ RaceSelect(t) \/ RaceCommit(t)

SpecRace == RaceInit /\ [][RaceNext]_vars

----------------------------------------------------------------------------
(* C21 *)

RaceOver == \A t \in Threads : rc_th[t].pc \in {"returned", "raised"}

\* C21: when two requests call set_answer for the same key, whether or not
\* the key has a durable row, both calls return under every interleaving,
\* and get_answer then returns the payload one of them wrote.
C21_RacingWritesHarmless ==
    /\ \A t \in Threads : rc_th[t].pc # "raised"
    /\ RaceOver => \E t \in Threads : get_answer(RaceKey) = rc_th[t].payload

----------------------------------------------------------------------------
(* Two asks and a reset on one session: ask_service.py 1449-1450 (load),   *)
(* 1457-1459, 1535-1536, 1563-1564, 1654-1655 (append and save), ask.py    *)
(* 26-40 (reset).  Each request runs in its own thread; a step is one      *)
(* redis command.  ss_th.asks[t] is where ask t stands: the state it       *)
(* loaded, its turn, and what had happened when it loaded and saved.       *)

OldTurn == [q |-> Str("old q", 12), a |-> Str("old a", 40)]

RECURSIVE OldContext(_)
\* the context after n asks of an earlier conversation
OldContext(n) ==
    IF n = 0 THEN EmptyContext
    ELSE _append_context_turn(OldContext(n - 1), OldTurn.q, OldTurn.a)

\* what the session holds when the requests arrive: nothing, one turn, a
\* full list of turns, or a summary and the recent turns
SessStart ==
    {Absent, _save_context(OldContext(1)), _save_context(OldContext(CTX_MAX_TURNS)),
     _save_context(OldContext(CTX_MAX_TURNS + 1))}

\* the turn of ask t: its question and the answer it got
SessTurns(t) ==
    { [q |-> Str("q of " \o t, 12),  a |-> Str("a of " \o t, 40)],
      [q |-> Str("q of " \o t, 300), a |-> Str("a of " \o t, 400)] }

NoAsk == [pc |-> "idle", loaded |-> EmptyContext, turn |-> OldTurn,
          ld_reset |-> FALSE, sv_reset |-> FALSE, raced |-> FALSE, later |-> FALSE]

\* A mutant of the write of an ask: the turn is appended to what the key
\* holds when the ask saves, not to what the ask loaded.
Mut_SessWritten_merged(t) ==
    _save_context(_append_context_turn(_load_context(ctx_redis, CTX_MAX_TURNS),
                                       ss_th.asks[t].turn.q, ss_th.asks[t].turn.a))

\* _save_context(redis, context_key, _append_context_turn(context_state, req.query, answer))
SessWritten(t) ==
    _save_context(_append_context_turn(ss_th.asks[t].loaded,
                                       ss_th.asks[t].turn.q, ss_th.asks[t].turn.a))

\* line 1450: context_state = _load_context(redis, context_key)
SessLoad(t) ==
    /\ ss_th.asks[t].pc = "idle"
    /\ \E turn \in SessTurns(t) :
          ss_th' = [ss_th EXCEPT !.asks[t] =
                       [NoAsk EXCEPT !.pc = "loaded",
                                     !.loaded = _load_context(ctx_redis, CTX_MAX_TURNS),
                                     !.turn = turn,
                                     !.ld_reset = (ss_th.reset = "done")]]
    /\ UNCHANGED <<ctxVars, confVars, rrVars, factVars, askVars, cacheVars, embVars,
                   resetVars, ln_op, rc_th, ig_op, wk_op>>

\* the save of the ask, after its answer is built
SessSave(t) ==
    /\ ss_th.asks[t].pc = "loaded"
    /\ ctx_redis' = SessWritten(t)
    /\ ss_th' = [ss_th EXCEPT !.asks[t].pc = "saved",
                              !.asks[t].sv_reset = (ss_th.reset = "done"),
                              !.asks[t].raced =
                                  \A u \in Threads \ {t} : ss_th.asks[u].pc = "loaded",
                              !.asks[t].later =
                                  \A u \in Threads \ {t} : ss_th.asks[u].pc = "saved"]
    /\ UNCHANGED <<ctx_state, ctx_pc, ctx_n, confVars, rrVars, factVars, askVars, cacheVars,
                   embVars, resetVars, ln_op, rc_th, ig_op, wk_op>>

\* ask.py 39: redis.delete(key)
SessReset ==
    /\ ss_th.reset = "idle"
    /\ ctx_redis' = Absent
    /\ ss_th' = [ss_th EXCEPT !.reset = "done"]
    /\ UNCHANGED <<ctx_state, ctx_pc, ctx_n, confVars, rrVars, factVars, askVars, cacheVars,
                   embVars, resetVars, ln_op, rc_th, ig_op, wk_op>>

SessInit ==
    /\ ctx_redis \in SessStart
    /\ ctx_state = EmptyContext /\ ctx_pc = "absent" /\ ctx_n = 0
    /\ ConfIdle /\ RrIdle /\ FactIdle /\ AskIdle /\ CacheIdle /\ EmbIdle /\ ResetIdle
    /\ ss_th = [asks |-> [t \in Threads |-> NoAsk], reset |-> "idle"]
    /\ LaneIdle /\ RaceIdle /\ IngestIdle /\ WorkerIdle

SessNext == SessReset \/ \E t \in Threads : SessLoad(t) \/ SessSave(t)

SpecSess == SessInit /\ [][SessNext]_vars

----------------------------------------------------------------------------
(* C26 *)

\* ask t saved last, after an ask that had saved while t was between its
\* load and its save, and no reset came after t's save
SessLastOfRace(t) ==
    /\ \A u \in Threads : ss_th.asks[u].pc = "saved"
    /\ ss_th.asks[t].later
    /\ \E u \in Threads \ {t} : ss_th.asks[u].raced
    /\ ss_th.reset = "done" => ss_th.asks[t].sv_reset

TurnsOf(raw) == {raw.turns[i] : i \in 1..Len(raw.turns)}

\* C26: when two asks on a session both load the context before either saves,
\* what the key holds after both is what the later save wrote: the context
\* the later ask loaded with its own turn appended, without the turn of the
\* earlier ask, within the bounds on turns and summary.
C26_LastWriteWins ==
    \A t \in Threads :
        SessLastOfRace(t) =>
            /\ ctx_redis = _save_context(_append_context_turn(
                               ss_th.asks[t].loaded, ss_th.asks[t].turn.q, ss_th.asks[t].turn.a))
            /\ \E x \in TurnsOf(ctx_redis) : x.q.id = "q of " \o t
            /\ \A u \in Threads \ {t} : \A x \in TurnsOf(ctx_redis) : x.q.id # "q of " \o u
            /\ Len(ctx_redis.turns) <= CTX_MAX_TURNS
            /\ ctx_redis.summary.len <= CTX_SUMMARY_MAX_CHARS

C26_Witness ==
    /\ SessLastOfRace("t2")
    /\ ss_th.reset = "idle"
    /\ ss_th.asks["t1"].loaded = ss_th.asks["t2"].loaded
    /\ ctx_redis.summary.len > 0

----------------------------------------------------------------------------
(* C28 *)

\* ask t loaded the context before the reset and saved after it
SessAcrossReset(t) ==
    /\ ss_th.reset = "done"
    /\ \A u \in Threads : ss_th.asks[u].pc \in {"idle", "saved"}
    /\ ss_th.asks[t].pc = "saved"
    /\ ~ss_th.asks[t].ld_reset
    /\ ss_th.asks[t].sv_reset

\* C28: when reset_context runs while an ask on the session is between its
\* load and its save, then after both the key holds no turn and no summary
\* from before the reset.
C28_ResetNotUndone ==
    (\E t \in Threads : SessAcrossReset(t)) =>
        /\ OldTurn \notin TurnsOf(ctx_redis)
        /\ ctx_redis.summary.len = 0

----------------------------------------------------------------------------
(* C27 *)

\* the active sources of a workspace
ActiveSources(workspace_id) ==
    {SourceRows[k].id : k \in {j \in 1..Len(SourceRows) :
        SourceRows[j].workspace_id = workspace_id /\ SourceRows[j].status = "active"}}

\* C27: every chunk that is evidence of an ask belongs to an active source
\* of the workspace the request names.
C27_WorkspaceIsolation ==
    ask_pc \in {"retrieved", "missed", "done"} =>
        \A i \in 1..Len(ask_chunks) :
            ask_chunks[i].source_id \in ActiveSources(ask_req.workspace_id)

----------------------------------------------------------------------------
(* Ingestion of one document: worker/app/jobs/ingestion.py 227-345.  A     *)
(* text is named by its id; split_by_heading is tabulated; a hash is the   *)
(* name of what it hashes.  ig_op.docs maps an external id of the source   *)
(* to its documents row with its ACL rows, chunks, embeddings and facts;   *)
(* ig_op.call is the last call of upsert_document_with_chunks.             *)

ExternalIds == {"e1", "e2"}

IngestTexts == {"empty", "a", "a b", "c b"}

\* split_by_heading(text): the chunk texts, in position order
split_by_heading(text) ==
    CASE text = "a"   -> <<"a">>
      [] text = "a b" -> <<"a", "b">>
      [] text = "c b" -> <<"c", "b">>
      [] OTHER        -> <<>>

sha256_text(value) == "sha256:" \o value

\* the ACL lists a connector supplies, as the set of their rows
IngestAcls ==
    { {[principal_type |-> "public", principal_id |-> "all"]},
      {[principal_type |-> "user", principal_id |-> "u1"]},
      {[principal_type |-> "user", principal_id |-> "u1"],
       [principal_type |-> "group", principal_id |-> "g1"]},
      {} }

target_model == "ollama:new"

NoDoc == [present |-> FALSE, content_hash |-> "", acl |-> {}, chunks |-> <<>>, facts |-> <<>>]

NoUpsert == [external_id |-> "", text |-> "", acl |-> {}, path |-> "none"]

\* a chunks row with the model of its embedding
IngestChunk(text, model) == [text |-> text, text_hash |-> sha256_text(text), model |-> model]

\* lines 243-271: the content hash is the one stored
UpsertUnchanged(doc) ==
    IF doc.chunks = <<>> THEN doc
    ELSE [doc EXCEPT
            !.chunks = IF doc.chunks[1].model = target_model THEN doc.chunks
                       ELSE [i \in 1..Len(doc.chunks) |->
                                [doc.chunks[i] EXCEPT !.model = target_model]],
            !.facts = [i \in 1..Len(doc.chunks) |-> doc.chunks[i].text]]

\* lines 273-343: a new document, or one whose content changed
UpsertChanged(doc, text, acl) ==
    [present |-> TRUE, content_hash |-> sha256_text(text), acl |-> acl,
     chunks |-> [i \in 1..Len(split_by_heading(text)) |->
                   IF /\ i <= Len(doc.chunks)
                      /\ doc.chunks[i].text_hash = sha256_text(split_by_heading(text)[i])
                   THEN doc.chunks[i]
                   ELSE IngestChunk(split_by_heading(text)[i], target_model)],
     facts |-> split_by_heading(text)]

upsert_document_with_chunks(doc, text, acl) ==
    IF doc.present /\ doc.content_hash = sha256_text(text)
    THEN UpsertUnchanged(doc)
    ELSE UpsertChanged(doc, text, acl)

IngestUpsert ==
    \E e \in ExternalIds, text \in IngestTexts, acl \in IngestAcls :
        /\ ig_op' = [docs |-> [ig_op.docs EXCEPT
                                 ![e] = upsert_document_with_chunks(ig_op.docs[e], text, acl)],
                     call |-> [external_id |-> e, text |-> text, acl |-> acl,
                               path |-> IF ~ig_op.docs[e].present THEN "new"
                                        ELSE IF ig_op.docs[e].content_hash = sha256_text(text)
                                        THEN "unchanged" ELSE "changed"]]
        /\ UNCHANGED <<ctxVars, confVars, rrVars, factVars, askVars, cacheVars, embVars,
                       resetVars, ln_op, rc_th, ss_th, wk_op>>

\* the documents table at the start: empty, or e1 ingested by a release that
\* embedded with another model
IngestStart ==
    { [e \in ExternalIds |-> NoDoc],
      [e \in ExternalIds |->
          IF e = "e1"
          THEN [present |-> TRUE, content_hash |-> sha256_text("a"),
                acl |-> {[principal_type |-> "public", principal_id |-> "all"]},
                chunks |-> <<IngestChunk("a", "ollama:old")>>, facts |-> <<"a">>]
          ELSE NoDoc] }

IngestInit ==
    /\ AskIdle /\ CtxIdle /\ ConfIdle /\ RrIdle /\ FactIdle /\ CacheIdle /\ EmbIdle
    /\ ResetIdle
    /\ \E docs \in IngestStart : ig_op = [docs |-> docs, call |-> NoUpsert]
    /\ LaneIdle /\ RaceIdle /\ SessIdle /\ WorkerIdle

IngestNext == IngestUpsert

SpecIngest == IngestInit /\ [][IngestNext]_vars

----------------------------------------------------------------------------
(* C29 *)

\* C29: after upsert_document_with_chunks returns, the ACL rows of the
\* document are the ACL given, whether the document is new, changed or
\* unchanged.
C29_AclReplaced ==
    ig_op.call.path # "none" =>
        ig_op.docs[ig_op.call.external_id].acl = ig_op.call.acl

----------------------------------------------------------------------------
(* The worker: worker/app/main.py 22-83.  wk_op holds the sync queue (the  *)
(* ids of the visible messages), the batch the loop received and has not   *)
(* yet worked off, the messages received and deleted so far, the sync_jobs *)
(* table and the position of run().  A message is [id, job_id]; the job    *)
(* decides what its handler does.                                          *)

MaxMessages == 3

\* SQS MaxNumberOfMessages of receive_message
MaxNumberOfMessages == 5

\* the jobs a message may name: an upload whose source is there, an upload
\* whose source row is gone, a connector without a handler yet, and a job id
\* of no row
JobIds == {"j_upload", "j_nosource", "j_notion", "j_norow"}

JobRows == {"j_upload", "j_nosource", "j_notion"}

NoJob == [status |-> "queued", error |-> "none"]

\* what the handler of a job does once the job is running: it returns, or it
\* raises the error given
HandlerOutcomes(job_id) ==
    CASE job_id = "j_upload"   -> {"returns", "ConnectionError"}
      [] job_id = "j_nosource" -> {"source missing"}
      [] OTHER                 -> {"returns"}

RECURSIVE SeqsOf(_)
\* the orders in which the messages of a set may be received
SeqsOf(S) ==
    IF S = {} THEN {<<>>}
    ELSE UNION {{<<m>> \o s : s \in SeqsOf(S \ {m})} : m \in S}

\* a producer sends a message for a job
WorkerSend ==
    /\ wk_op.sent < MaxMessages
    /\ \E j \in JobIds :
          wk_op' = [wk_op EXCEPT !.sent = wk_op.sent + 1,
                                 !.queue = wk_op.queue \cup {[id |-> wk_op.sent + 1, job_id |-> j]}]
    /\ UNCHANGED <<ctxVars, confVars, rrVars, factVars, askVars, cacheVars, embVars,
                   resetVars, ln_op, rc_th, ss_th, ig_op>>

\* lines 73-78: receive_message returns up to five of the visible messages
WorkerReceive ==
    /\ wk_op.pc = "receive"
    /\ wk_op.queue # {}
    /\ \E B \in SUBSET wk_op.queue :
          /\ B # {}
          /\ Cardinality(B) <= MaxNumberOfMessages
          /\ \E batch \in SeqsOf(B) :
                wk_op' = [wk_op EXCEPT !.pc = "for",
                                       !.queue = wk_op.queue \ B,
                                       !.batch = batch,
                                       !.received = wk_op.received \cup {m.id : m \in B}]
    /\ UNCHANGED <<ctxVars, confVars, rrVars, factVars, askVars, cacheVars, embVars,
                   resetVars, ln_op, rc_th, ss_th, ig_op>>

\* lines 79-81 and 22-32: the next message of the batch; json.loads and
\* UUID(...), the select of the job, and the commit of status running.  For
\* a job of no row process_job_message returns and the finally of run()
\* deletes the message.
WorkerBegin ==
    /\ wk_op.pc = "for"
    /\ wk_op.batch # <<>>
    /\ \E msg \in {Head(wk_op.batch)} :
          IF msg.job_id \notin JobRows
          THEN wk_op' = [wk_op EXCEPT !.batch = Tail(wk_op.batch),
                                      !.deleted = wk_op.deleted \cup {msg.id}]
          ELSE wk_op' = [wk_op EXCEPT !.pc = "try",
                                      !.jobs[msg.job_id].status = "running"]
    /\ UNCHANGED <<ctxVars, confVars, rrVars, factVars, askVars, cacheVars, embVars,
                   resetVars, ln_op, rc_th, ss_th, ig_op>>

\* lines 34-64 and 82-83: the handler of the job; success, or failed with
\* the error and the exception raised again; the finally of run() deletes
\* the message, and an exception leaves the for loop and run()
WorkerFinish ==
    /\ wk_op.pc = "try"
    /\ \E msg \in {Head(wk_op.batch)} :
          \E outcome \in HandlerOutcomes(msg.job_id) :
             wk_op' = [wk_op EXCEPT
                         !.pc = IF outcome = "returns" THEN "for" ELSE "raised",
                         !.jobs[msg.job_id] =
                             IF outcome = "returns"
                             THEN [status |-> "success", error |-> "none"]
                             ELSE [status |-> "failed", error |-> outcome],
                         !.batch = Tail(wk_op.batch),
                         !.deleted = wk_op.deleted \cup {msg.id}]
    /\ UNCHANGED <<ctxVars, confVars, rrVars, factVars, askVars, cacheVars, embVars,
                   resetVars, ln_op, rc_th, ss_th, ig_op>>

\* the for loop is through: back to receive_message
WorkerLoop ==
    /\ wk_op.pc = "for"
    /\ wk_op.batch = <<>>
    /\ wk_op' = [wk_op EXCEPT !.pc = "receive"]
    /\ UNCHANGED <<ctxVars, confVars, rrVars, factVars, askVars, cacheVars, embVars,
                   resetVars, ln_op, rc_th, ss_th, ig_op>>

WorkerInit ==
    /\ AskIdle /\ CtxIdle /\ ConfIdle /\ RrIdle /\ FactIdle /\ CacheIdle /\ EmbIdle
    /\ ResetIdle
    /\ LaneIdle /\ RaceIdle /\ SessIdle /\ IngestIdle
    /\ wk_op = [pc |-> "receive", queue |-> {}, batch |-> <<>>, received |-> {},
                deleted |-> {}, jobs |-> [j \in JobRows |-> NoJob], sent |-> 0]

WorkerStep == WorkerReceive \/ WorkerBegin \/ WorkerFinish \/ WorkerLoop

WorkerNext == WorkerSend \/ WorkerStep

\* run() is the only thread of the worker process: it takes its next step
\* whenever it has one
SpecWorker == WorkerInit /\ [][WorkerNext]_vars /\ WF_vars(WorkerStep)

----------------------------------------------------------------------------
(* C30 *)

\* C30: every message received from the queue is in the end worked off and
\* deleted, also when the handler of an earlier message of its batch raised.
C30_WorkerProgress ==
    \A i \in 1..MaxMessages : (i \in wk_op.received) ~> (i \in wk_op.deleted)

====
